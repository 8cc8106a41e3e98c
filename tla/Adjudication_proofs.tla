------------------------ MODULE Adjudication_proofs ------------------------
(***************************************************************************)
(* The safety properties of Adjudication, for every history, every set of  *)
(* assets on this ledger, with and without a single withdrawer, and for    *)
(* any number of registrations and of network failures; and the proof that *)
(* it implements Settlement.                                               *)
(***************************************************************************)
EXTENDS Adjudication, PerunContract_proofs

\* The contract still owes party p its payment.
Owed(p) == chan.open /\ ~chan.withdrawn[p]

\* A process runs with the request of its party's last state; the calls that it
\* has ahead follow from what it has read.
ControlInv ==
    \A p \in Party :
        /\ pc[p] # "idle" \/ result[p] # "none" => req[p] = known[p]
        /\ pc[p] # "idle" => result[p] # "nil"
        /\ pc[p] \in {"withdraw", "withdrawOther"} => settled # -1

\* What the contract stores agrees with the history variable settled.
ChanInv ==
    /\ IF chan.open THEN FullyFunded ELSE chan = Absent
    /\ settled = -1 <=> chan.open /\ ~chan.closed
    /\ chan.closed => chan.version = settled
    /\ ~chan.closed => \A p \in Party : ~chan.withdrawn[p]

\* Whatever the parties know.
BaseInv == TypeOK /\ ControlInv /\ ChanInv

\* If both know a final state, nobody force-closes, so that a late Close finds no other
\* outcome.
SharedInv ==
    /\ FinalIsShared
    /\ \A p \in Party : pc[p] = "forceClose" => ~hist.final
    /\ hist.final => settled \in {-1, hist.last}

\* A party has its endowment until it is paid, and then its share besides.
MoneyInv ==
    \A p \in Party :
        IF Owed(p) THEN \A a \in Asset : wallet[p][a] = Endowment[p][a]
                   ELSE PaidFor(p, settled)

\* The contract holds the shares that are still owed, by whichever version.
Claim(p, a) == IF chan.withdrawn[p] THEN 0 ELSE Share(chan.version, p, a)
EscrowInv == chan.open => \A a \in Asset : held[a] = Claim(0, a) + Claim(1, a)

\* A nil of a party that withdraws for itself comes after the settlement.
ReturnInv ==
    \A p \in Party :
        result[p] = "nil" /\ (~oneWithdrawer \/ p = 1) =>
            /\ settled # -1
            /\ settled = req[p] => PaidFor(p, settled)

\* A single withdrawer does not come to its own payment before A is paid, unless
\* a call fails.
FirstA ==
    /\ oneWithdrawer /\ faults = 0 /\ settled = known[1]
    /\ pc[1] = "withdraw" \/ ~Owed(1) \/ result[1] = "nil"
    => PaidFor(0, settled)

IInv ==
    /\ TypeOK /\ ControlInv /\ ChanInv /\ SharedInv /\ MoneyInv /\ EscrowInv
    /\ ReturnInv /\ FirstA

-----------------------------------------------------------------------------
(* Steps *)

\* The transactions, with what the processes know of them.
Disputes == settled' = settled /\ \E v \in Versions : CanDispute(v) /\ TxDispute(v)
Elapses == settled' = settled /\ Elapse
Closes(p) ==
    pc[p] = "close" /\ CanClose(req[p]) /\ TxClose(req[p]) /\ settled' = req[p]
ForceCloses(p) ==
    pc[p] = "forceClose" /\ CanForceClose /\ TxForceClose /\ settled' = chan.version
PaysTo(p, q) ==
    /\ pc[p] \in {"withdraw", "withdrawOther"}
    /\ CanWithdraw(p, q, oneWithdrawer \/ pc[p] = "withdrawOther")
    /\ TxWithdraw(q)
    /\ settled' = settled
    /\ q = IF pc[p] = "withdraw" THEN p ELSE 0

Transaction ==
    \/ Disputes \/ Elapses
    \/ \E p \in Party : Closes(p) \/ ForceCloses(p)
    \/ \E p \in Party, q \in Party : PaysTo(p, q)

\* Every step is at most one transaction that the contract accepts.
LEMMA OneTransaction ==
    ASSUME TypeOK, [Next]_vars
    PROVE  UNCHANGED <<contractVars, settled>> \/ Transaction
<1> USE DEF CallFails, Transaction, contractVars
<1>1. CASE UNCHANGED vars
  BY <1>1 DEF vars
<1>2. ASSUME NEW p \in Party, Withdraw(p) PROVE UNCHANGED <<contractVars, settled>>
  BY <1>2 DEF Withdraw
<1>3. ASSUME NEW p \in Party, ReadStep(p) PROVE UNCHANGED <<contractVars, settled>>
  BY <1>3 DEF ReadStep, ReadFails, ReadClosed, ReadNotClosed
<1>4. ASSUME NEW p \in Party, CloseStep(p)
      PROVE  UNCHANGED <<contractVars, settled>> \/ Closes(p)
  BY <1>4 DEF CloseStep, CloseApplied, CloseFails, Reread, RereadFails, Closes
<1>5. ASSUME NEW p \in Party, ForceCloseStep(p)
      PROVE  UNCHANGED <<contractVars, settled>> \/ ForceCloses(p)
  BY <1>5 DEF ForceCloseStep, ForceCloseSucceeds, ForceCloseUndecoded,
     ForceCloseFails, ForceCloses
<1>6. ASSUME NEW p \in Party, WithdrawStep(p)
      PROVE  UNCHANGED <<contractVars, settled>> \/ \E q \in Party : PaysTo(p, q)
  <2>1. CASE OtherSucceeds(p) \/ OtherUndecoded(p) \/ OtherFails(p)
    BY <2>1 DEF OtherSucceeds, OtherUndecoded, OtherFails, PaysTo, Party,
       CanWithdraw
  <2>2. CASE WithdrawSucceeds(p) \/ WithdrawUndecoded(p) \/ WithdrawFails(p)
    BY <2>2 DEF WithdrawSucceeds, WithdrawUndecoded, WithdrawFails, PaysTo,
       CanWithdraw
  <2> QED
    BY <1>6, <2>1, <2>2 DEF WithdrawStep
<1>7. ASSUME NEW p \in Party, Register(p) \/ Watch(p) PROVE Disputes
  BY <1>7 DEF Register, Watch, Registers, Disputes, TypeOK
<1>8. CASE RegisterFails
  BY <1>8 DEF RegisterFails
<1>9. CASE ChallengeEnds
  BY <1>9 DEF ChallengeEnds, Elapses
<1> QED
  BY <1>1, <1>2, <1>3, <1>4, <1>5, <1>6, <1>7, <1>8, <1>9 DEF Next, Settling

-----------------------------------------------------------------------------
(* Types and control *)

LEMMA InitInv == Init => BaseInv /\ (FinalIsShared => IInv)
<1> SUFFICES ASSUME Init PROVE BaseInv /\ (FinalIsShared => IInv)
  OBVIOUS
<1> USE DEF Init
<1>1. /\ chan.open /\ ~chan.closed /\ ~chan.disputed /\ ~chan.expired
      /\ chan.version = 0
      /\ \A p \in Party : chan.funded[p] /\ ~chan.withdrawn[p]
  BY DEF Absent, Neither
<1>2. 0 \in Versions /\ hist.last \in Versions /\ \A v \in Versions : v # -1
  BY EndVersions
<1>3. chan \in ChanType
  BY <1>2 DEF Absent, Neither, ChanType
<1>4. \A p \in Party, a \in Asset : Share(0, p, a) \in Nat
  BY <1>2, ShareNat
<1>5. wallet \in [Party -> [Asset -> Int]]
  BY EndowmentAssumption
<1>6. held \in [Asset -> Int]
  BY <1>4 DEF Party
<1>7. TypeOK
  BY <1>2, <1>3, <1>5, <1>6, MaxFaultsAssumption, MaxRegistersAssumption
     DEF TypeOK, ContractTypeOK, ChanType
<1>8. ControlInv /\ ReturnInv
  BY DEF ControlInv, ReturnInv
<1>9. FinalIsShared => SharedInv
  BY <1>2 DEF SharedInv
<1>10. ChanInv /\ MoneyInv
  BY <1>1 DEF ChanInv, FullyFunded, MoneyInv, Owed
<1>11. EscrowInv
  BY <1>1 DEF EscrowInv, Claim, Party
<1>12. FirstA
  BY <1>1, <1>2 DEF FirstA, Owed, Party
<1> QED
  BY <1>7, <1>8, <1>9, <1>10, <1>11, <1>12 DEF IInv, BaseInv

LEMMA ContractTypeStep ==
    ASSUME TypeOK, [Next]_vars
    PROVE  ContractTypeOK' /\ hist' = hist /\ settled' \in Versions \cup {-1}
<1> DEFINE Goal == ContractTypeOK' /\ hist' = hist /\ settled' \in Versions \cup {-1}
<1>0. /\ ContractTypeOK /\ settled \in Versions \cup {-1}
      /\ chan.version \in Versions /\ \A p \in Party : req[p] \in Versions
  BY DEF TypeOK, ContractTypeOK
<1>1. CASE UNCHANGED <<contractVars, settled>>
  BY <1>0, <1>1 DEF contractVars, ContractTypeOK, Versions
<1>2. CASE Disputes
  BY <1>0, <1>2, DisputeType DEF Disputes, TxDispute
<1>3. CASE Elapses
  BY <1>0, <1>3, ElapseType DEF Elapses, Elapse
<1>4. ASSUME NEW p \in Party, Closes(p) PROVE Goal
  BY <1>0, <1>4, CloseType DEF Closes, TxClose
<1>5. ASSUME NEW p \in Party, ForceCloses(p) PROVE Goal
  BY <1>0, <1>5, ForceCloseType DEF ForceCloses, TxForceClose
<1>6. ASSUME NEW p \in Party, NEW q \in Party, PaysTo(p, q) PROVE Goal
  BY <1>0, <1>6, WithdrawType DEF PaysTo, TxWithdraw
<1> QED
  BY <1>1, <1>2, <1>3, <1>4, <1>5, <1>6, OneTransaction DEF Transaction

\* What the processes and their callers keep.
CallTypeOK ==
    /\ faults \in 0..MaxFaults
    /\ oneWithdrawer \in Withdrawers
    /\ known \in [Party -> Versions]
    /\ registered \in [Party -> 0..MaxRegisters]
    /\ pc \in [Party -> {"idle", "read", "close", "reread", "forceClose",
                         "withdrawOther", "withdraw"}]
    /\ req \in [Party -> Versions]
    /\ result \in [Party -> {"none", "nil", "error"}]

\* What never changes, and what is never undone.
LEMMA BaseConstant ==
    ASSUME BaseInv, [Next]_vars
    PROVE  /\ hist' = hist /\ known' = known /\ oneWithdrawer' = oneWithdrawer
           /\ settled # -1 => settled' # -1
           /\ faults' = 0 => faults = 0
<1>1. hist' = hist
  BY ContractTypeStep DEF BaseInv
<1> DEFINE Kept ==
      known' = known /\ oneWithdrawer' = oneWithdrawer /\ (NoFault \/ Fault)
<1>2. Kept
  <2> USE DEF Goto, Return, HandleWithdrawal, WithdrawSelf, CallFails, NoFault, callVars
  <2>1. CASE UNCHANGED vars
    BY <2>1 DEF vars
  <2>2. ASSUME NEW p \in Party, Settling(p)
        PROVE  Kept
    <3>1. CASE Withdraw(p)
      BY <3>1 DEF Withdraw
    <3>2. CASE ReadStep(p)
      BY <3>2 DEF ReadStep, ReadFails, ReadClosed, ReadNotClosed
    <3>3. CASE CloseStep(p)
      BY <3>3 DEF CloseStep, CloseApplied, CloseFails, Reread, RereadFails
    <3>4. CASE ForceCloseStep(p)
      BY <3>4 DEF ForceCloseStep, ForceCloseSucceeds, ForceCloseUndecoded,
         ForceCloseFails
    <3>5. CASE WithdrawStep(p)
      BY <3>5 DEF WithdrawStep, OtherSucceeds, OtherUndecoded, OtherFails,
         WithdrawSucceeds, WithdrawUndecoded, WithdrawFails
    <3> QED
      BY <2>2, <3>1, <3>2, <3>3, <3>4, <3>5 DEF Settling
  <2>3. ASSUME NEW p \in Party, Register(p) \/ Watch(p)
        PROVE  Kept
    BY <2>3 DEF Register, Watch, Registers
  <2>4. CASE RegisterFails \/ ChallengeEnds
    BY <2>4 DEF RegisterFails, ChallengeEnds
  <2> QED
    BY <2>1, <2>2, <2>3, <2>4 DEF Next
<1>3. settled # -1 => settled' # -1
  <2>1. chan.version \in Nat /\ \A p \in Party : req[p] \in Nat
    BY EndVersions DEF BaseInv, TypeOK, ContractTypeOK
  <2>2. ASSUME Transaction, settled' # settled PROVE settled' \in Nat
    BY <2>1, <2>2 DEF Transaction, Disputes, Elapses, Closes, ForceCloses, PaysTo
  <2> QED
    BY <2>2, OneTransaction DEF BaseInv
<1>4. faults' = 0 => faults = 0
  BY <1>2 DEF NoFault, Fault, BaseInv, TypeOK
<1> QED
  BY <1>1, <1>2, <1>3, <1>4

LEMMA Constant ==
    ASSUME IInv, [Next]_vars
    PROVE  /\ hist' = hist /\ known' = known /\ oneWithdrawer' = oneWithdrawer
           /\ settled # -1 => settled' # -1
           /\ faults' = 0 => faults = 0
BY BaseConstant DEF IInv, BaseInv

\* handleWithdrawal of a settled channel goes to a withdrawal, or returns.
LEMMA HandleWithdrawalEnds ==
    ASSUME TypeOK, NEW p \in Party, HandleWithdrawal(p)
    PROVE  /\ UNCHANGED <<oneWithdrawer, known, registered, req>>
           /\ \/ /\ pc' = [pc EXCEPT ![p] = "idle"]
                 /\ result' = [result EXCEPT ![p] = "nil"]
                 /\ ~NeedWithdraw(p, p)
                 /\ oneWithdrawer => ~NeedWithdraw(p, Peer(p))
              \/ /\ pc' = [pc EXCEPT ![p] = "withdraw"]
                 /\ result' = result
                 /\ oneWithdrawer => ~NeedWithdraw(p, Peer(p))
              \/ /\ pc' = [pc EXCEPT ![p] = "withdrawOther"]
                 /\ result' = result
                 /\ oneWithdrawer
BY DEF HandleWithdrawal, WithdrawSelf, Goto, Return

LEMMA CallTypeStep ==
    ASSUME BaseInv, [Next]_vars
    PROVE  CallTypeOK' /\ ControlInv'
<1> DEFINE Goal == CallTypeOK' /\ ControlInv'
<1>0. Versions' = Versions /\ hist' = hist /\ known' = known
  BY BaseConstant DEF Versions
<1>2. chan.version \in Versions /\ \A v \in Versions : v # -1
  BY EndVersions DEF BaseInv, TypeOK, ContractTypeOK
<1>3. /\ settled # -1 => settled' # -1
      /\ chan.open /\ chan.closed => settled # -1
  BY BaseConstant DEF BaseInv, ChanInv
<1>12. NoFault \/ Fault => faults' \in 0..MaxFaults
  BY MaxFaultsAssumption DEF NoFault, Fault, BaseInv, TypeOK
<1> USE <1>0, <1>2, <1>3, MaxFaultsAssumption, MaxRegistersAssumption
    DEF BaseInv, TypeOK, CallTypeOK, ControlInv, Goto, Return, CallFails, Fault, NoFault
<1>4. ASSUME UNCHANGED callVars, faults' \in 0..MaxFaults PROVE Goal
  <2>1. CallTypeOK'
    BY <1>4 DEF callVars
  <2>2. ControlInv'
    BY <1>4 DEF callVars
  <2> QED
    BY <2>1, <2>2
<1>5. ASSUME NEW p \in Party, Withdraw(p) PROVE Goal
  BY <1>5 DEF Withdraw
<1>6. ASSUME NEW p \in Party, ReadStep(p) PROVE Goal
  <2>1. CASE ReadFails(p)
    BY <2>1 DEF ReadFails
  <2>2. CASE ReadClosed(p)
    <3>1. CASE AlreadyWithdrawn(p)
      BY <2>2, <3>1 DEF ReadClosed
    <3>2. CASE ~AlreadyWithdrawn(p)
      BY <2>2, <3>2, HandleWithdrawalEnds DEF ReadClosed
    <3> QED
      BY <3>1, <3>2
  <2>3. CASE ReadNotClosed(p)
    BY <2>3 DEF ReadNotClosed
  <2> QED
    BY <1>6, <2>1, <2>2, <2>3 DEF ReadStep
<1>7. ASSUME NEW p \in Party, CloseStep(p) PROVE Goal
  <2>1. CASE CloseApplied(p)
    BY <2>1 DEF CloseApplied
  <2>2. CASE CloseFails(p) \/ RereadFails(p)
    BY <2>2 DEF CloseFails, RereadFails
  <2>3. CASE Reread(p)
    <3>1. CASE p = 0 /\ oneWithdrawer
      BY <2>3, <3>1 DEF Reread
    <3>2. CASE ~(p = 0 /\ oneWithdrawer)
      BY <2>3, <3>2, HandleWithdrawalEnds DEF Reread
    <3> QED
      BY <3>1, <3>2
  <2> QED
    BY <1>7, <2>1, <2>2, <2>3 DEF CloseStep
<1>8. ASSUME NEW p \in Party, ForceCloseStep(p) PROVE Goal
  <2>1. CASE ForceCloseSucceeds(p)
    BY <2>1, HandleWithdrawalEnds DEF ForceCloseSucceeds
  <2>2. CASE ForceCloseUndecoded(p) \/ ForceCloseFails(p)
    BY <2>2 DEF ForceCloseUndecoded, ForceCloseFails
  <2> QED
    BY <1>8, <2>1, <2>2 DEF ForceCloseStep
<1>9. ASSUME NEW p \in Party, WithdrawStep(p) PROVE Goal
  <2>1. CASE OtherSucceeds(p)
    BY <2>1 DEF OtherSucceeds, WithdrawSelf
  <2>2. CASE OtherUndecoded(p) \/ OtherFails(p)
    <3>1. /\ pc[p] = "withdrawOther"
          /\ pc' = [pc EXCEPT ![p] = "withdraw"]
          /\ UNCHANGED <<oneWithdrawer, known, registered, req, result>>
          /\ NoFault \/ Fault
      BY <2>2 DEF OtherUndecoded, OtherFails
    <3> QED
      BY <1>12, <3>1
  <2>3. CASE WithdrawSucceeds(p) \/ WithdrawUndecoded(p) \/ WithdrawFails(p)
    BY <2>3 DEF WithdrawSucceeds, WithdrawUndecoded, WithdrawFails
  <2> QED
    BY <1>9, <2>1, <2>2, <2>3 DEF WithdrawStep
<1>10. ASSUME NEW p \in Party, Register(p) \/ Watch(p) PROVE Goal
  BY <1>10 DEF Register, Watch, Registers
<1>11. ASSUME RegisterFails \/ ChallengeEnds \/ UNCHANGED vars PROVE Goal
  <2>1. UNCHANGED callVars /\ (NoFault \/ Fault)
    BY <1>11 DEF RegisterFails, ChallengeEnds, vars
  <2> QED
    BY <1>4, <1>12, <2>1
<1>13. Goal
  BY <1>5, <1>6, <1>7, <1>8, <1>9, <1>10, <1>11 DEF Next, Settling
<1> QED
  BY <1>13

-----------------------------------------------------------------------------
(* The outcome and the money *)

\* What a payment does: it pays one party that is owed its share, and only a party
\* without a share loses its claim besides.
LEMMA BasePayment ==
    ASSUME BaseInv, NEW p \in Party, NEW q \in Party, PaysTo(p, q)
    PROVE  /\ settled # -1 /\ chan.version = settled /\ settled' = settled
           /\ hist' = hist
           /\ chan.open /\ chan.closed /\ FullyFunded
           /\ Owed(q) /\ ~Owed(q)'
           /\ \A r \in Party : Owed(r)' => Owed(r)
           /\ \A r \in Party : r # q /\ Owed(r) /\ ~Owed(r)' => OwesNothing(settled, r)
           /\ \A r \in Party, a \in Asset : wallet'[r][a] =
                 IF r = q THEN wallet[r][a] + Share(settled, r, a) ELSE wallet[r][a]
           /\ \A a \in Asset : held'[a] = held[a] - Share(settled, q, a)
<1>1. /\ chan.open /\ chan.closed /\ ~chan.withdrawn[q]
      /\ TxWithdraw(q) /\ settled' = settled
  BY DEF PaysTo, CanWithdraw
<1>2. settled # -1 /\ chan.version = settled /\ FullyFunded
  BY <1>1 DEF BaseInv, ChanInv
<1>3. /\ hist' = hist
      /\ wallet' = [wallet EXCEPT ![q] =
                       [a \in Asset |-> wallet[q][a] + Share(settled, q, a)]]
      /\ held' = [a \in Asset |-> held[a] - Share(settled, q, a)]
  BY <1>1, <1>2 DEF TxWithdraw
<1>4. wallet \in [Party -> [Asset -> Int]]
  BY DEF BaseInv, TypeOK, ContractTypeOK
<1> DEFINE done == [r \in Party |-> \/ r = q
                                    \/ chan.withdrawn[r]
                                    \/ OwesNothing(chan.version, r)]
<1>5. chan' = IF \A r \in Party : done[r]
              THEN Absent ELSE [chan EXCEPT !.withdrawn = done]
  BY <1>1 DEF TxWithdraw
<1>6. chan \in ChanType
  BY DEF BaseInv, TypeOK, ContractTypeOK, ChanType
<1>7. ASSUME NEW r \in Party
      PROVE  /\ Owed(r)' => Owed(r) /\ r # q
             /\ Owed(r) /\ ~Owed(r)' /\ r # q => OwesNothing(settled, r)
  <2>1. CASE \A s \in Party : done[s]
    BY <1>1, <1>2, <1>5, <2>1 DEF Owed, Absent
  <2>2. CASE ~\A s \in Party : done[s]
    <3>1. chan'.open = chan.open /\ chan'.withdrawn = done
      BY <1>5, <1>6, <2>2 DEF ChanType
    <3> QED
      BY <1>2, <3>1 DEF Owed
  <2> QED
    BY <2>1, <2>2
<1>8. Owed(q) /\ ~Owed(q)'
  BY <1>1, <1>7 DEF Owed
<1>9. \A r \in Party, a \in Asset : wallet'[r][a] =
         IF r = q THEN wallet[r][a] + Share(settled, r, a) ELSE wallet[r][a]
  BY <1>3, <1>4
<1> QED
  BY <1>1, <1>2, <1>3, <1>7, <1>8, <1>9

LEMMA Payment ==
    ASSUME IInv, NEW p \in Party, NEW q \in Party, PaysTo(p, q)
    PROVE  /\ settled # -1 /\ chan.version = settled /\ settled' = settled
           /\ hist' = hist
           /\ chan.open /\ chan.closed /\ FullyFunded
           /\ Owed(q) /\ ~Owed(q)'
           /\ \A r \in Party : Owed(r)' => Owed(r)
           /\ \A r \in Party : r # q /\ Owed(r) /\ ~Owed(r)' => OwesNothing(settled, r)
           /\ \A r \in Party, a \in Asset : wallet'[r][a] =
                 IF r = q THEN wallet[r][a] + Share(settled, r, a) ELSE wallet[r][a]
           /\ \A a \in Asset : held'[a] = held[a] - Share(settled, q, a)
BY BasePayment DEF IInv, BaseInv

LEMMA ChanStep ==
    ASSUME BaseInv, [Next]_vars
    PROVE  ChanInv'
<1>1. /\ hist' = hist /\ chan \in ChanType /\ ChanInv
      /\ \A v \in Versions : v # -1
      /\ \A p \in Party : req[p] \in Versions
  BY BaseConstant, EndVersions DEF BaseInv, TypeOK, ContractTypeOK, ChanType
<1> USE <1>1 DEF ChanInv, FullyFunded, ChanType
<1>2. CASE UNCHANGED <<contractVars, settled>>
  BY <1>2 DEF contractVars
<1>3. CASE Disputes
  BY <1>3 DEF Disputes, CanDispute, TxDispute
<1>4. CASE Elapses
  BY <1>4 DEF Elapses, Elapse, Absent
<1>5. ASSUME NEW p \in Party, Closes(p) PROVE ChanInv'
  BY <1>5 DEF Closes, CanClose, TxClose, Final
<1>6. ASSUME NEW p \in Party, ForceCloses(p) PROVE ChanInv'
  BY <1>6 DEF ForceCloses, CanForceClose, TxForceClose
<1>7. ASSUME NEW p \in Party, NEW q \in Party, PaysTo(p, q) PROVE ChanInv'
  <2>1. /\ chan.open /\ chan.closed /\ settled # -1 /\ chan.version = settled
        /\ settled' = settled
    BY <1>7 DEF PaysTo, CanWithdraw
  <2>2. CASE chan' = Absent
    BY <2>1, <2>2 DEF Absent, Neither
  <2>3. CASE chan' # Absent
    BY <1>7, <2>1, <2>3 DEF PaysTo, TxWithdraw
  <2> QED
    BY <2>2, <2>3
<1> QED
  BY <1>2, <1>3, <1>4, <1>5, <1>6, <1>7, OneTransaction DEF Transaction, BaseInv

\* Disputes, the passing of time, and closing move no money and take no claim.
LEMMA NoPayment ==
    ASSUME IInv, [Next]_vars, ~\E p \in Party, q \in Party : PaysTo(p, q)
    PROVE  /\ UNCHANGED <<hist, wallet, held>>
           /\ chan'.open = chan.open
           /\ \A r \in Party : chan'.withdrawn[r] = chan.withdrawn[r]
           /\ settled # -1 => settled' = settled /\ chan'.version = chan.version
<1>1. ChanInv /\ chan.closed \in BOOLEAN
  BY DEF IInv, TypeOK, ContractTypeOK
<1>2. CASE UNCHANGED <<contractVars, settled>>
  BY <1>2 DEF contractVars
<1>3. CASE Disputes
  BY <1>1, <1>3 DEF Disputes, CanDispute, TxDispute, ChanInv, IInv, TypeOK,
     ContractTypeOK
<1>4. CASE Elapses
  BY <1>1, <1>4 DEF Elapses, Elapse, IInv, TypeOK, ContractTypeOK
<1>5. ASSUME NEW p \in Party, Closes(p)
      PROVE  /\ UNCHANGED <<hist, wallet, held>>
             /\ chan' = [chan EXCEPT !.closed = TRUE, !.version = hist.last]
             /\ settled # -1 => settled' = settled /\ chan.version = hist.last
  BY <1>1, <1>5 DEF Closes, CanClose, TxClose, Final, ChanInv, IInv, SharedInv
<1>6. ASSUME NEW p \in Party, ForceCloses(p)
      PROVE  /\ UNCHANGED <<hist, wallet, held>>
             /\ chan' = [chan EXCEPT !.closed = TRUE]
             /\ settled = -1
  BY <1>1, <1>6 DEF ForceCloses, CanForceClose, TxForceClose, ChanInv
<1> QED
  BY <1>2, <1>3, <1>4, <1>5, <1>6, OneTransaction
     DEF Transaction, IInv, TypeOK, ContractTypeOK

\* A party that has read an open channel closes a final state, and does not force-close it.
LEMMA SharedStep ==
    ASSUME IInv, [Next]_vars
    PROVE  SharedInv'
<1>1. /\ hist' = hist /\ known' = known /\ TypeOK /\ SharedInv /\ ChanInv
      /\ \A p \in Party : pc[p] # "idle" => req[p] = known[p]
  BY Constant DEF IInv, ControlInv
<1>2. FinalIsShared'
  BY <1>1 DEF SharedInv, FinalIsShared
<1>3. ASSUME NEW p \in Party, pc'[p] = "forceClose", hist.final
      PROVE  FALSE
  <2>1. pc[p] # "forceClose" /\ known[p] = hist.last
    BY <1>1, <1>3 DEF SharedInv, FinalIsShared
  <2> USE <1>1, <1>3, <2>1 DEF TypeOK, Goto, Return, HandleWithdrawal, WithdrawSelf
  <2>2. ASSUME NEW q \in Party, Withdraw(q) PROVE FALSE
    BY <2>2 DEF Withdraw
  <2>3. ASSUME NEW q \in Party, ReadStep(q) PROVE FALSE
    <3>1. CASE ReadFails(q)
      BY <3>1 DEF ReadFails
    <3>2. CASE ReadClosed(q)
      BY <3>2 DEF ReadClosed
    <3>3. CASE ReadNotClosed(q)
      BY <3>3 DEF ReadNotClosed, Final
    <3> QED
      BY <2>3, <3>1, <3>2, <3>3 DEF ReadStep
  <2>4. ASSUME NEW q \in Party, CloseStep(q) PROVE FALSE
    BY <2>4 DEF CloseStep, CloseApplied, CloseFails, Reread, RereadFails
  <2>5. ASSUME NEW q \in Party, ForceCloseStep(q) PROVE FALSE
    BY <2>5 DEF ForceCloseStep, ForceCloseSucceeds, ForceCloseUndecoded, ForceCloseFails
  <2>6. ASSUME NEW q \in Party, WithdrawStep(q) PROVE FALSE
    <3>1. CASE OtherSucceeds(q) \/ OtherUndecoded(q) \/ OtherFails(q)
      BY <3>1 DEF OtherSucceeds, OtherUndecoded, OtherFails
    <3>2. CASE WithdrawSucceeds(q) \/ WithdrawUndecoded(q) \/ WithdrawFails(q)
      BY <3>2 DEF WithdrawSucceeds, WithdrawUndecoded, WithdrawFails
    <3> QED
      BY <2>6, <3>1, <3>2 DEF WithdrawStep
  <2>7. ASSUME NEW q \in Party, Register(q) \/ Watch(q) PROVE FALSE
    BY <2>7 DEF Register, Watch, Registers
  <2>8. CASE RegisterFails \/ ChallengeEnds \/ UNCHANGED vars
    BY <2>8 DEF RegisterFails, ChallengeEnds, vars, callVars
  <2> QED
    BY <2>2, <2>3, <2>4, <2>5, <2>6, <2>7, <2>8 DEF Next, Settling
<1>4. ASSUME hist.final PROVE settled' \in {-1, hist.last}
  <2>1. \A p \in Party : ~ForceCloses(p)
    BY <1>1, <1>4 DEF ForceCloses, SharedInv
  <2>2. ASSUME NEW p \in Party, Closes(p) PROVE settled' = hist.last
    BY <2>2 DEF Closes, CanClose, Final
  <2>3. settled \in {-1, hist.last}
    BY <1>1, <1>4 DEF SharedInv
  <2> QED
    BY <1>1, <2>1, <2>2, <2>3, OneTransaction
       DEF Transaction, Disputes, Elapses, PaysTo
<1> QED
  BY <1>1, <1>2, <1>3, <1>4 DEF SharedInv

LEMMA MoneyStep ==
    ASSUME IInv, [Next]_vars
    PROVE  MoneyInv'
<1> SUFFICES ASSUME NEW r \in Party
             PROVE  IF Owed(r)' THEN \A a \in Asset : wallet'[r][a] = Endowment[r][a]
                                ELSE PaidFor(r, settled)'
  BY DEF MoneyInv
<1>1. IF Owed(r) THEN \A a \in Asset : wallet[r][a] = Endowment[r][a]
                 ELSE settled # -1 /\ PaidFor(r, settled)
  BY DEF IInv, MoneyInv, ChanInv, Owed
<1>2. hist' = hist /\ \A v, a : Share(v, r, a)' = Share(v, r, a)
  BY Constant DEF Share
<1>3. ASSUME NEW p \in Party, NEW q \in Party, PaysTo(p, q)
      PROVE  IF Owed(r)' THEN \A a \in Asset : wallet'[r][a] = Endowment[r][a]
                         ELSE PaidFor(r, settled)'
  <2>1. settled' = settled /\ (PaidFor(r, settled)' <=>
            \A a \in Asset : wallet'[r][a] = Endowment[r][a] + Share(settled, r, a))
    BY <1>3, Payment DEF PaidFor, Share
  <2>2. CASE Owed(r)'
    BY <1>1, <1>3, <2>2, Payment
  <2>3. CASE ~Owed(r)' /\ r = q
    BY <1>1, <1>3, <2>1, <2>3, Payment
  <2>4. CASE ~Owed(r)' /\ r # q /\ Owed(r)
    <3>1. \A a \in Asset : Share(settled, r, a) = 0 /\ wallet'[r][a] = Endowment[r][a]
      BY <1>1, <1>3, <2>4, Payment DEF OwesNothing
    <3> QED
      BY <2>1, <2>4, <3>1, EndowmentAssumption
  <2>5. CASE ~Owed(r)' /\ r # q /\ ~Owed(r)
    BY <1>1, <1>3, <2>1, <2>5, Payment DEF PaidFor
  <2> QED
    BY <2>2, <2>3, <2>4, <2>5
<1>4. CASE ~\E p \in Party, q \in Party : PaysTo(p, q)
  <2>1. /\ wallet' = wallet /\ Owed(r)' = Owed(r)
        /\ settled # -1 => settled' = settled
    BY <1>4, NoPayment DEF Owed
  <2>2. PaidFor(r, settled) /\ settled # -1 => PaidFor(r, settled)'
    BY <1>2, <2>1 DEF PaidFor, Share
  <2> QED
    BY <1>1, <2>1, <2>2
<1> QED
  BY <1>3, <1>4

LEMMA EscrowStep ==
    ASSUME IInv, [Next]_vars
    PROVE  EscrowInv'
<1> SUFFICES ASSUME chan'.open, NEW a \in Asset
             PROVE  held'[a] = Claim(0, a)' + Claim(1, a)'
  BY DEF EscrowInv
<1>1. /\ hist \in Histories /\ chan.version \in Versions
      /\ \A r \in Party : Share(chan.version, r, a) \in Nat
      /\ held[a] \in Int /\ hist' = hist
  BY Constant, ShareNat DEF IInv, TypeOK, ContractTypeOK
<1>2. chan.open => held[a] = Claim(0, a) + Claim(1, a)
  BY DEF IInv, EscrowInv
<1>3. ASSUME NEW p \in Party, NEW q \in Party, PaysTo(p, q)
      PROVE  held'[a] = Claim(0, a)' + Claim(1, a)'
  <2>1. /\ held'[a] = held[a] - Share(chan.version, q, a)
        /\ Claim(q, a) = Share(chan.version, q, a)
    BY <1>3, Payment DEF Claim, Owed
  <2>2. chan' # Absent
    BY DEF Absent
  <2>3. chan'.version = chan.version
    BY <1>3, <2>2 DEF PaysTo, TxWithdraw, IInv, TypeOK, ContractTypeOK
  <2>4. Claim(q, a)' = 0
    BY <1>3, Payment DEF Claim, Owed
  <2>5. ASSUME NEW r \in Party, r # q PROVE Claim(r, a)' = Claim(r, a)
    <3>1. Share(chan.version, r, a)' = Share(chan.version, r, a)
      BY <1>1, <2>3 DEF Share
    <3>2. chan.open /\ chan'.open /\ chan.version = settled
      BY <1>3, Payment
    <3>3. chan.withdrawn[r] => chan'.withdrawn[r]
      BY <1>3, <3>2, Payment DEF Owed
    <3>4. ~chan.withdrawn[r] /\ chan'.withdrawn[r] => Share(chan.version, r, a) = 0
      BY <1>3, <2>5, <3>2, Payment DEF Owed, OwesNothing
    <3> QED
      BY <3>1, <3>3, <3>4 DEF Claim
  <2>6. Claim(0, a) \in Int /\ Claim(1, a) \in Int
    BY <1>1 DEF Claim, Party
  <2> QED
    BY <1>1, <1>2, <1>3, <2>1, <2>4, <2>5, <2>6, Payment DEF Party
<1>4. CASE ~\E p \in Party, q \in Party : PaysTo(p, q)
  <2>1. /\ held' = held /\ chan.open
        /\ \A r \in Party : chan'.withdrawn[r] = chan.withdrawn[r]
        /\ settled # -1 => chan'.version = chan.version
    BY <1>4, NoPayment
  <2>2. chan'.version \in Versions
    BY <1>1, ContractTypeStep DEF IInv, ContractTypeOK, Versions
  <2>3. \A r \in Party : Share(chan.version, r, a)' = Share(chan'.version, r, a)
    BY <1>1 DEF Share
  <2>4. CASE settled # -1
    BY <1>2, <2>1, <2>3, <2>4 DEF Claim, Party
  <2>5. CASE settled = -1
    <3>1. \A r \in Party : ~chan.withdrawn[r]
      BY <2>5 DEF IInv, ChanInv
    <3>2. Share(chan.version, 0, a) + Share(chan.version, 1, a)
            = Share(chan'.version, 0, a) + Share(chan'.version, 1, a)
      BY <1>1, <2>2, SameTotal
    <3> QED
      BY <1>2, <2>1, <2>3, <3>1, <3>2 DEF Claim, Party
  <2> QED
    BY <2>4, <2>5
<1> QED
  BY <1>3, <1>4

-----------------------------------------------------------------------------
(* What the callers are told *)

\* A claim that is gone does not come back.
LEMMA ClaimGone ==
    ASSUME IInv, [Next]_vars, NEW r \in Party, ~Owed(r)
    PROVE  ~Owed(r)'
BY Payment, NoPayment DEF Owed

\* Once a party has its share of the outcome, it has it for good.
LEMMA PaidStays ==
    ASSUME IInv, [Next]_vars, NEW r \in Party, settled # -1, PaidFor(r, settled)
    PROVE  PaidFor(r, settled)' /\ settled' = settled
<1>1. hist' = hist /\ \A a \in Asset : Share(settled, r, a)' = Share(settled', r, a)
  BY Constant DEF Share
<1>2. ASSUME NEW p \in Party, NEW q \in Party, PaysTo(p, q)
      PROVE  PaidFor(r, settled)' /\ settled' = settled
  <2>1. CASE r # q
    BY <1>1, <1>2, <2>1, Payment DEF PaidFor
  <2>2. CASE r = q
    <3>1. \A a \in Asset : wallet[r][a] = Endowment[r][a]
      BY <1>2, <2>2, Payment DEF IInv, MoneyInv
    <3> QED
      BY <1>1, <1>2, <2>2, <3>1, Payment DEF PaidFor
  <2> QED
    BY <2>1, <2>2
<1>3. CASE ~\E p \in Party, q \in Party : PaysTo(p, q)
  BY <1>1, <1>3, NoPayment DEF PaidFor
<1> QED
  BY <1>2, <1>3

\* Who needs nothing of its own state has been paid when that is the outcome.
LEMMA NeedsNothing ==
    ASSUME IInv, NEW p \in Party, NEW r \in Party, ~NeedWithdraw(p, r),
           NEW a \in Asset
    PROVE  Share(req[p], r, a) = 0
<1>1. req[p] \in Versions
  BY DEF IInv, TypeOK
<1> QED
  BY <1>1 DEF NeedWithdraw, Share

\* How a party comes to the withdrawal of its own share, or to a nil.
LEMMA Endings ==
    ASSUME IInv, [Next]_vars, NEW p \in Party,
           pc'[p] = "withdraw" \/ result'[p] = "nil",
           pc'[p] # pc[p] \/ result'[p] # result[p]
    PROVE  /\ pc[p] # "idle"
           /\ \/ p = 0 /\ oneWithdrawer
              \/ settled' # -1 /\ settled # -1 /\ ~Owed(p)
              \/ /\ settled' # -1
                 /\ oneWithdrawer => ~NeedWithdraw(p, Peer(p))
                 /\ result'[p] = "nil" => ~NeedWithdraw(p, p)
              \/ /\ pc[p] = "withdrawOther"
                 /\ PaysTo(p, 0)
                 /\ result'[p] = "nil" => ~NeedWithdraw(p, p)
              \/ /\ pc[p] = "withdrawOther"
                 /\ result'[p] # "nil"
                 /\ faults' # 0 \/ p = 0 \/ ~Owed(0)
              \/ /\ pc[p] = "withdraw"
                 /\ PaysTo(p, p)
<1> DEFINE Goal == /\ pc[p] # "idle"
                   /\ \/ p = 0 /\ oneWithdrawer
                      \/ settled' # -1 /\ settled # -1 /\ ~Owed(p)
                      \/ /\ settled' # -1
                         /\ oneWithdrawer => ~NeedWithdraw(p, Peer(p))
                         /\ result'[p] = "nil" => ~NeedWithdraw(p, p)
                      \/ /\ pc[p] = "withdrawOther"
                         /\ PaysTo(p, 0)
                         /\ result'[p] = "nil" => ~NeedWithdraw(p, p)
                      \/ /\ pc[p] = "withdrawOther"
                         /\ result'[p] # "nil"
                         /\ faults' # 0 \/ p = 0 \/ ~Owed(0)
                      \/ /\ pc[p] = "withdraw"
                         /\ PaysTo(p, p)
<1>1. /\ TypeOK /\ faults \in Nat
      /\ pc \in [Party -> {"idle", "read", "close", "reread", "forceClose",
                           "withdrawOther", "withdraw"}]
      /\ result \in [Party -> {"none", "nil", "error"}]
      /\ \A q \in Party : pc[q] # "idle" => result[q] # "nil"
      /\ chan.open /\ chan.closed => settled # -1
      /\ settled # -1 => settled' # -1
      /\ \A q \in Party : pc[q] = "withdrawOther" => settled # -1
      /\ settled = -1 <=> chan.open /\ ~chan.closed
      /\ chan.version # -1
  BY Constant, EndVersions DEF IInv, TypeOK, ContractTypeOK, ControlInv, ChanInv
<1> USE <1>1 DEF Goto, Return
<1>2. CASE UNCHANGED callVars
  BY <1>2 DEF callVars
<1>3. ASSUME NEW q \in Party, Withdraw(q) PROVE FALSE
  BY <1>3 DEF Withdraw
<1>4. ASSUME NEW q \in Party, ReadStep(q) PROVE Goal
  <2>1. CASE ReadFails(q)
    BY <2>1 DEF ReadFails
  <2>2. CASE ReadClosed(q)
    <3>1. CASE AlreadyWithdrawn(q)
      BY <2>2, <3>1 DEF ReadClosed, AlreadyWithdrawn, Owed
    <3>2. CASE ~AlreadyWithdrawn(q)
      BY <2>2, <3>2, HandleWithdrawalEnds DEF ReadClosed
    <3> QED
      BY <3>1, <3>2
  <2>3. CASE ReadNotClosed(q)
    BY <2>3 DEF ReadNotClosed, LeavesToB
  <2> QED
    BY <1>4, <2>1, <2>2, <2>3 DEF ReadStep
<1>5. ASSUME NEW q \in Party, CloseStep(q) PROVE Goal
  <2>1. CASE CloseApplied(q) \/ CloseFails(q) \/ RereadFails(q)
    BY <2>1 DEF CloseApplied, CloseFails, RereadFails
  <2>2. CASE Reread(q)
    <3>1. CASE q = 0 /\ oneWithdrawer
      BY <2>2, <3>1 DEF Reread
    <3>2. CASE ~(q = 0 /\ oneWithdrawer)
      BY <2>2, <3>2, HandleWithdrawalEnds DEF Reread
    <3> QED
      BY <3>1, <3>2
  <2> QED
    BY <1>5, <2>1, <2>2 DEF CloseStep
<1>6. ASSUME NEW q \in Party, ForceCloseStep(q) PROVE Goal
  <2>1. CASE ForceCloseSucceeds(q)
    BY <2>1, HandleWithdrawalEnds DEF ForceCloseSucceeds
  <2>2. CASE ForceCloseUndecoded(q) \/ ForceCloseFails(q)
    BY <2>2 DEF ForceCloseUndecoded, ForceCloseFails
  <2> QED
    BY <1>6, <2>1, <2>2 DEF ForceCloseStep
<1>7. ASSUME NEW q \in Party, WithdrawStep(q) PROVE Goal
  <2>1. CASE OtherSucceeds(q)
    <3>1. q = p /\ pc[p] = "withdrawOther" /\ PaysTo(p, 0)
      BY <2>1 DEF OtherSucceeds, WithdrawSelf, PaysTo, CanWithdraw
    <3>2. result'[p] = "nil" => ~NeedWithdraw(p, p)
      BY <2>1, <3>1 DEF OtherSucceeds, WithdrawSelf
    <3> QED
      BY <3>1, <3>2
  <2>2. CASE OtherUndecoded(q)
    <3>1. /\ q = p /\ pc[p] = "withdrawOther"
          /\ result' = result
      BY <2>2 DEF OtherUndecoded
    <3>2. faults' # 0
      BY <2>2 DEF OtherUndecoded, Fault
    <3> QED
      BY <3>1, <3>2
  <2>3. CASE OtherFails(q)
    <3>1. q = p /\ pc[p] = "withdrawOther" /\ result' = result
      BY <2>3 DEF OtherFails
    <3>2. CASE p = 0
      BY <3>1, <3>2
    <3>3. CASE p # 0 /\ Fault
      BY <3>1, <3>3 DEF Fault
    <3>4. CASE p = 1 /\ ~CanWithdraw(p, 0, TRUE)
      BY <3>1, <3>4 DEF CanWithdraw, Owed
    <3> QED
      BY <2>3, <3>1, <3>2, <3>3, <3>4 DEF OtherFails, CallFails, Party
  <2>4. CASE WithdrawSucceeds(q)
    BY <2>4 DEF WithdrawSucceeds, PaysTo, CanWithdraw
  <2>5. CASE WithdrawUndecoded(q) \/ WithdrawFails(q)
    BY <2>5 DEF WithdrawUndecoded, WithdrawFails
  <2> QED
    BY <1>7, <2>1, <2>2, <2>3, <2>4, <2>5 DEF WithdrawStep
<1>8. ASSUME NEW q \in Party, Register(q) \/ Watch(q) PROVE FALSE
  BY <1>8 DEF Register, Watch, Registers
<1>9. CASE RegisterFails \/ ChallengeEnds \/ UNCHANGED vars
  BY <1>2, <1>9 DEF RegisterFails, ChallengeEnds, vars
<1> QED
  BY <1>3, <1>4, <1>5, <1>6, <1>7, <1>8, <1>9 DEF Next, Settling

LEMMA ReturnStep ==
    ASSUME IInv, [Next]_vars
    PROVE  ReturnInv'
<1>1. /\ MoneyInv' /\ ChanInv' /\ ControlInv' /\ ContractTypeOK'
      /\ known' = known /\ oneWithdrawer' = oneWithdrawer /\ hist' = hist
      /\ settled # -1 => settled' # -1
  BY MoneyStep, ChanStep, CallTypeStep, ContractTypeStep, Constant DEF IInv, BaseInv
<1> SUFFICES ASSUME NEW p \in Party, result'[p] = "nil", ~oneWithdrawer \/ p = 1
             PROVE  /\ settled' # -1
                    /\ settled' = req'[p] => PaidFor(p, settled)'
  BY <1>1 DEF ReturnInv
<1>2. req'[p] = known[p]
  BY <1>1 DEF ControlInv
<1>3. \A v, a : Share(v, p, a)' = Share(v, p, a)
  BY <1>1 DEF Share
<1>4. CASE result[p] = "nil"
  <2>1. settled # -1 /\ req[p] = known[p] /\ (settled = req[p] => PaidFor(p, settled))
    BY <1>4 DEF IInv, ReturnInv, ControlInv
  <2>2. settled' = settled
    BY <2>1, Payment, NoPayment DEF Party
  <2> QED
    BY <1>1, <1>2, <2>1, <2>2, PaidStays
<1>5. CASE result[p] # "nil" /\ ~Owed(p)'
  <2>1. settled' # -1
    BY <1>1, <1>5 DEF ChanInv, Owed
  <2> QED
    BY <1>1, <1>5, <2>1 DEF MoneyInv
<1>6. CASE result[p] # "nil" /\ Owed(p)'
  <2>1. Owed(p) /\ ~PaysTo(p, p)
    BY <1>6, ClaimGone, Payment
  <2>2. /\ pc[p] # "idle"
        /\ ~NeedWithdraw(p, p)
        /\ settled' # -1
    BY <1>6, <2>1, Endings, Payment DEF Party
  <2>3. req[p] = known[p] /\ \A a \in Asset : Share(req[p], p, a) = 0
    BY <2>2, NeedsNothing DEF IInv, ControlInv
  <2>4. \A a \in Asset : wallet'[p][a] = Endowment[p][a] /\ Endowment[p][a] \in Int
    BY <1>1, <1>6, EndowmentAssumption DEF MoneyInv
  <2> QED
    BY <1>1, <1>2, <1>3, <2>2, <2>3, <2>4 DEF PaidFor, Share
<1> QED
  BY <1>4, <1>5, <1>6

LEMMA FirstAStep ==
    ASSUME IInv, [Next]_vars
    PROVE  FirstA'
<1>1. /\ MoneyInv' /\ ChanInv' /\ ControlInv'
      /\ known' = known /\ oneWithdrawer' = oneWithdrawer /\ hist' = hist
      /\ settled # -1 => settled' # -1
      /\ faults' = 0 => faults = 0
  BY MoneyStep, ChanStep, CallTypeStep, Constant DEF IInv, BaseInv
<1>2. known[1] \in Versions /\ known[1] # -1
  BY EndVersions DEF IInv, TypeOK, ContractTypeOK, Party
<1> SUFFICES ASSUME oneWithdrawer, faults' = 0, settled' = known[1],
                    pc'[1] = "withdraw" \/ ~Owed(1)' \/ result'[1] = "nil"
             PROVE  PaidFor(0, settled)'
  BY <1>1 DEF FirstA
<1>3. CASE ~Owed(0)'
  BY <1>1, <1>3 DEF MoneyInv, Party
<1>4. CASE Owed(0)' /\ settled # -1
              /\ (pc[1] = "withdraw" \/ ~Owed(1) \/ result[1] = "nil")
  <2>1. settled' = settled
    BY <1>4, Payment, NoPayment
  <2>2. PaidFor(0, settled)
    BY <1>1, <1>4, <2>1 DEF IInv, FirstA
  <2> QED
    BY <1>4, <2>2, PaidStays DEF Party
<1>5. CASE Owed(0)' /\ ~NeedWithdraw(1, 0) /\ pc[1] # "idle"
  <2>1. \A a \in Asset : Share(known[1], 0, a) = 0
    BY <1>5, NeedsNothing DEF IInv, ControlInv, Party
  <2>2. \A a \in Asset : wallet'[0][a] = Endowment[0][a] /\ Endowment[0][a] \in Int
    BY <1>1, <1>5, EndowmentAssumption DEF MoneyInv, Party
  <2> QED
    BY <1>1, <2>1, <2>2 DEF PaidFor, Share
<1>6. pc[1] = "withdraw" \/ ~Owed(1) \/ result[1] = "nil" => settled # -1
  BY DEF IInv, ControlInv, ChanInv, ReturnInv, Owed, Party
<1>7. CASE Owed(0)' /\ ~(pc[1] = "withdraw" \/ ~Owed(1) \/ result[1] = "nil")
  <2>0. Owed(0) /\ ~PaysTo(1, 0) /\ ~PaysTo(0, 0)
    BY <1>7, ClaimGone, Payment DEF Party
  <2>1. Owed(1)'
    <3>1. ~\E p \in Party, q \in Party : PaysTo(p, q)
      BY <1>7, <2>0 DEF PaysTo, CanWithdraw, Party
    <3> QED
      BY <1>7, <3>1, NoPayment DEF Owed, Party
  <2>2. pc[1] # "idle" /\ ~NeedWithdraw(1, 0)
    BY <1>7, <2>0, <2>1, Endings DEF Party, Peer
  <2> QED
    BY <1>5, <1>7, <2>2
<1> QED
  BY <1>3, <1>4, <1>6, <1>7

LEMMA BaseStep == BaseInv /\ [Next]_vars => BaseInv'
<1> SUFFICES ASSUME BaseInv, [Next]_vars PROVE BaseInv'
  OBVIOUS
<1>1. TypeOK'
  BY ContractTypeStep, CallTypeStep DEF BaseInv, TypeOK, CallTypeOK, Versions
<1> QED
  BY <1>1, CallTypeStep, ChanStep DEF BaseInv

LEMMA IInvStep == IInv /\ [Next]_vars => IInv'
<1> SUFFICES ASSUME IInv, [Next]_vars PROVE IInv'
  OBVIOUS
<1>1. TypeOK' /\ ControlInv' /\ ChanInv'
  BY BaseStep DEF IInv, BaseInv
<1> QED
  BY <1>1, SharedStep, MoneyStep, EscrowStep, ReturnStep, FirstAStep DEF IInv

\* Whether a final state is shared does not change.
LEMMA SharedStays == BaseInv /\ [Next]_vars => (FinalIsShared' => FinalIsShared)
BY BaseConstant DEF FinalIsShared

LEMMA BaseAlways == Spec => []BaseInv
<1> QED
  BY InitInv, BaseStep, PTL DEF Spec

LEMMA IInvAlways == Spec => [](FinalIsShared => IInv)
<1> QED
  BY InitInv, IInvStep, SharedStays, BaseAlways, PTL DEF Spec

-----------------------------------------------------------------------------
(* Theorems *)

\* Every variable of the two Adjudicators and of the channel keeps its type.
THEOREM TypeCorrect == Spec => []TypeOK
<1>1. BaseInv => TypeOK
  BY DEF BaseInv
<1> QED
  BY <1>1, BaseAlways, PTL

\* A closed channel holds exactly the shares that have not been paid, however
\* often it is disputed or closed on the way, if a final state is shared.
THEOREM EscrowCovers == Spec => []EscrowCoversClaims
<1>1. (FinalIsShared => IInv) => EscrowCoversClaims
  BY DEF IInv, EscrowInv, Claim, EscrowCoversClaims
<1> QED
  BY <1>1, IInvAlways, PTL

\* A channel that is deleted owes nothing to anybody, if a final state is shared.
THEOREM GoneIsPaid == Spec => []GoneMeansPaid
<1>1. (FinalIsShared => IInv) => GoneMeansPaid
  BY DEF IInv, MoneyInv, Owed, GoneMeansPaid
<1> QED
  BY <1>1, IInvAlways, PTL

\* The nil of a party that withdraws for itself means that it has been paid, if a final
\* state is shared.
THEOREM NilIsPaid == Spec => [](FinalIsShared => NilMeansPaid)
<1>1. IInv => NilMeansPaid
  BY DEF IInv, ReturnInv, NilMeansPaid
<1> QED
  BY <1>1, IInvAlways, PTL

\* Without failures the nil of the single withdrawer means that both are paid, if a
\* final state is shared.
THEOREM NilIsBothPaid == Spec => [](FinalIsShared => NilMeansBothPaid)
<1>1. IInv => NilMeansBothPaid
  <2> SUFFICES ASSUME IInv, oneWithdrawer, faults = 0, result[1] = "nil",
                      settled = req[1]
               PROVE  PaidFor(0, settled) /\ PaidFor(1, settled)
    BY DEF NilMeansBothPaid, Party
  <2>1. req[1] = known[1]
    BY DEF IInv, ControlInv, Party
  <2> QED
    BY <2>1 DEF IInv, FirstA, ReturnInv, Party
<1> QED
  BY <1>1, IInvAlways, PTL

-----------------------------------------------------------------------------
(* All tokens, and the way to them *)

\* No token appears or disappears: the wallets and the escrow hold what the parties
\* had and what they had paid in.
TokensConserved ==
    \A a \in Asset :
        held[a] + wallet[0][a] + wallet[1][a]
            = Endowment[0][a] + Endowment[1][a] + Share(0, 0, a) + Share(0, 1, a)

LEMMA ConservedStep ==
    ASSUME BaseInv, TokensConserved, [Next]_vars
    PROVE  TokensConserved'
<1>1. hist' = hist
  BY BaseConstant
<1> SUFFICES ASSUME NEW a \in Asset
             PROVE  held'[a] + wallet'[0][a] + wallet'[1][a]
                      = held[a] + wallet[0][a] + wallet[1][a]
  BY <1>1 DEF TokensConserved, Share
<1>2. CASE ~\E p \in Party, q \in Party : PaysTo(p, q)
  <2>1. wallet' = wallet /\ held' = held
    BY <1>2, OneTransaction
       DEF BaseInv, Transaction, contractVars, Disputes, TxDispute, Elapses, Elapse,
           Closes, TxClose, ForceCloses, TxForceClose
  <2> QED
    BY <2>1
<1>3. ASSUME NEW p \in Party, NEW q \in Party, PaysTo(p, q)
      PROVE  held'[a] + wallet'[0][a] + wallet'[1][a]
               = held[a] + wallet[0][a] + wallet[1][a]
  <2>1. /\ held[a] \in Int /\ \A r \in Party : wallet[r][a] \in Int
        /\ Share(settled, q, a) \in Int
    BY <1>3, BasePayment, ShareNat DEF BaseInv, TypeOK, ContractTypeOK
  <2>2. /\ held'[a] = held[a] - Share(settled, q, a)
        /\ \A r \in Party : wallet'[r][a] =
              IF r = q THEN wallet[r][a] + Share(settled, r, a) ELSE wallet[r][a]
    BY <1>3, BasePayment
  <2> QED
    BY <2>1, <2>2 DEF Party
<1> QED
  BY <1>2, <1>3

\* Close, ForceClose, Register and Withdraw of two parties, in any order and repeated,
\* neither create nor destroy a token.
THEOREM NoTokenIsLost == Spec => []TokensConserved
<1>1. Init => TokensConserved
  <2> SUFFICES ASSUME Init, NEW a \in Asset
               PROVE  held[a] + wallet[0][a] + wallet[1][a]
                        = Endowment[0][a] + Endowment[1][a] + Share(0, 0, a)
                            + Share(0, 1, a)
    BY DEF TokensConserved
  <2>1. Endowment[0][a] \in Int /\ Endowment[1][a] \in Int
        /\ Share(0, 0, a) \in Int /\ Share(0, 1, a) \in Int
    BY EndowmentAssumption, ShareNat, EndVersions DEF Init, Party
  <2> QED
    BY <2>1 DEF Init
<1> QED
  BY <1>1, ConservedStep, BaseAlways, PTL DEF Spec

\* A deleted channel leaves nothing behind in the contract, if a final state is shared.
THEOREM NothingIsLeft ==
    Spec => [](FinalIsShared /\ ~chan.open => \A a \in Asset : held[a] = 0)
<1>1. IInv /\ TokensConserved => (~chan.open => \A a \in Asset : held[a] = 0)
  <2> SUFFICES ASSUME IInv, TokensConserved, ~chan.open, NEW a \in Asset
               PROVE  held[a] = 0
    OBVIOUS
  <2>1. settled \in Versions /\ \A r \in Party : PaidFor(r, settled)
    BY DEF IInv, TypeOK, ChanInv, MoneyInv, Owed
  <2>2. Share(settled, 0, a) + Share(settled, 1, a) = Share(0, 0, a) + Share(0, 1, a)
    BY <2>1, SameTotal, EndVersions DEF IInv, TypeOK, ContractTypeOK
  <2>3. /\ held[a] \in Int
        /\ \A r \in Party : /\ Endowment[r][a] \in Int
                            /\ Share(settled, r, a) \in Int /\ Share(0, r, a) \in Int
    BY <2>1, ShareNat, EndVersions, EndowmentAssumption
       DEF IInv, TypeOK, ContractTypeOK
  <2>4. /\ wallet[0][a] = Endowment[0][a] + Share(settled, 0, a)
        /\ wallet[1][a] = Endowment[1][a] + Share(settled, 1, a)
    BY <2>1 DEF PaidFor, Party
  <2>5. held[a] + wallet[0][a] + wallet[1][a]
          = Endowment[0][a] + Endowment[1][a] + Share(0, 0, a) + Share(0, 1, a)
    BY DEF TokensConserved
  <2>6. /\ Endowment[0][a] \in Int /\ Endowment[1][a] \in Int
        /\ Share(settled, 0, a) \in Int /\ Share(settled, 1, a) \in Int
        /\ Share(0, 0, a) \in Int /\ Share(0, 1, a) \in Int
    BY <2>3 DEF Party
  <2> QED
    BY <2>2, <2>3, <2>4, <2>5, <2>6
<1> QED
  BY <1>1, IInvAlways, NoTokenIsLost, PTL

\* What a party is owed after the settlement is within its reach: the contract has it,
\* and pays it on the party's own request, if a final state is shared.
THEOREM ClaimsAreMet ==
    Spec => [](\A p \in Party :
                  FinalIsShared /\ settled # -1 /\ Owed(p) =>
                      /\ CanWithdraw(p, p, FALSE)
                      /\ \A a \in Asset : Share(settled, p, a) <= held[a])
<1>1. ASSUME IInv, NEW p \in Party, settled # -1, Owed(p)
      PROVE  /\ CanWithdraw(p, p, FALSE)
             /\ \A a \in Asset : Share(settled, p, a) <= held[a]
  <2>1. chan.open /\ chan.closed /\ chan.version = settled /\ settled \in Versions
    BY <1>1 DEF IInv, TypeOK, ContractTypeOK, ChanInv, Owed
  <2>2. \A r \in Party, a \in Asset : Share(settled, r, a) \in Nat
    BY <1>1, <2>1, ShareNat DEF IInv, TypeOK, ContractTypeOK
  <2>3. \A a \in Asset : Share(settled, p, a) <= held[a]
    BY <1>1, <2>1, <2>2 DEF IInv, EscrowInv, Claim, Owed, Party
  <2> QED
    BY <1>1, <2>1, <2>3 DEF CanWithdraw, Owed
<1>2. (FinalIsShared => IInv) =>
              \A p \in Party :
                 FinalIsShared /\ settled # -1 /\ Owed(p) =>
                     /\ CanWithdraw(p, p, FALSE)
                     /\ \A a \in Asset : Share(settled, p, a) <= held[a]
  BY <1>1
<1> QED
  BY <1>2, IInvAlways, PTL

-----------------------------------------------------------------------------
(* Newer states win *)

\* The version on the ledger does not fall, and no outcome is older than it, or than the
\* outcome that it replaces.
LEMMA VersionStep ==
    ASSUME BaseInv, [Next]_vars
    PROVE  /\ chan'.open => chan.open /\ chan'.version >= chan.version
           /\ settled # -1 => settled' \in Nat /\ settled' >= settled
           /\ settled = -1 /\ settled' # -1 =>
                 settled' \in Nat /\ settled' >= chan.version
<1>1. /\ chan \in ChanType /\ chan.version \in Nat /\ hist.last \in Nat
      /\ chan.version <= hist.last /\ \A p \in Party : req[p] \in Versions
      /\ settled # -1 => settled \in Nat /\ settled <= hist.last
  BY EndVersions DEF BaseInv, TypeOK, ContractTypeOK, ChanType, Versions
<1> USE <1>1 DEF ChanType
<1>2. CASE UNCHANGED <<contractVars, settled>>
  BY <1>2 DEF contractVars
<1>3. CASE Disputes
  BY <1>3, EndVersions DEF Disputes, CanDispute, TxDispute, BaseInv, TypeOK, ContractTypeOK
<1>4. CASE Elapses
  BY <1>4 DEF Elapses, Elapse
<1>5. ASSUME NEW p \in Party, Closes(p)
      PROVE  /\ chan'.version = hist.last /\ chan.open /\ settled' = hist.last
  BY <1>5 DEF Closes, CanClose, TxClose, Final, BaseInv, ChanInv
<1>6. ASSUME NEW p \in Party, ForceCloses(p)
      PROVE  /\ chan'.version = chan.version /\ chan.open /\ settled' = chan.version
             /\ settled = -1
  BY <1>6 DEF ForceCloses, CanForceClose, TxForceClose, BaseInv, ChanInv
<1>7. ASSUME NEW p \in Party, NEW q \in Party, PaysTo(p, q)
      PROVE  /\ chan.open /\ settled' = settled
             /\ chan'.open => chan'.version = chan.version
  BY <1>7 DEF PaysTo, CanWithdraw, TxWithdraw, Absent
<1> QED
  BY <1>2, <1>3, <1>4, <1>5, <1>6, <1>7, OneTransaction DEF Transaction, BaseInv

\* Once a state is registered, no older one is ever the outcome: a party that gets its
\* last state onto the ledger before the challenge period ends is settled with it, or with
\* a newer one, whatever its peer registers or closes, a late Close of a final state included.
THEOREM OutcomeIsNotOlder ==
    ASSUME NEW CONSTANT v \in Nat
    PROVE  Spec => [](chan.version = v => [](settled # -1 => settled >= v))
<1> DEFINE Since == IF settled = -1 THEN chan.open /\ chan.version >= v ELSE settled >= v
<1>1. BaseInv /\ chan.version = v => Since
  BY DEF BaseInv, TypeOK, ContractTypeOK, ChanInv, Absent, Versions
<1>2. ASSUME BaseInv, [Next]_vars, Since
      PROVE  Since'
  <2>1. BaseInv'
    BY <1>2, BaseStep
  <2>2. chan.version \in Nat /\ chan'.version \in Nat
    <3>1. Versions' = Versions /\ Versions \subseteq Nat
      BY <1>2, EndVersions, BaseConstant DEF BaseInv, TypeOK, ContractTypeOK, Versions
    <3>2. chan.version \in Versions /\ chan'.version \in Versions'
      BY <1>2, <2>1 DEF BaseInv, TypeOK, ContractTypeOK
    <3> QED
      BY <3>1, <3>2
  <2>3. CASE settled = -1
    BY <1>2, <2>1, <2>2, <2>3, VersionStep DEF BaseInv, ChanInv
  <2>4. CASE settled # -1
    <3>1. settled \in Nat /\ settled' \in Nat /\ settled' >= settled /\ settled >= v
      BY <1>2, <2>4, VersionStep, EndVersions DEF BaseInv, TypeOK, ContractTypeOK, Versions
    <3> QED
      BY <3>1
  <2> QED
    BY <2>3, <2>4
<1>3. Since => (settled # -1 => settled >= v)
  OBVIOUS
<1>4. BaseInv /\ Since /\ [Next]_vars => Since'
  BY <1>2
<1> HIDE DEF Since
<1> QED
  BY <1>1, <1>3, <1>4, BaseAlways, PTL DEF Spec

-----------------------------------------------------------------------------
(* The way to the settlement *)

\* A channel that nobody has disputed is at version 0, until it is closed.
StartInv == chan.open /\ ~chan.closed /\ ~chan.disputed => chan.version = 0

LEMMA StartStep ==
    ASSUME BaseInv, StartInv, [Next]_vars
    PROVE  StartInv'
<1>1. chan \in ChanType
  BY DEF BaseInv, TypeOK, ContractTypeOK, ChanType
<1> USE <1>1 DEF StartInv, ChanType
<1>2. CASE UNCHANGED <<contractVars, settled>>
  BY <1>2 DEF contractVars
<1>3. CASE Disputes
  BY <1>3 DEF Disputes, TxDispute
<1>4. CASE Elapses
  BY <1>4 DEF Elapses, Elapse
<1>5. ASSUME NEW p \in Party, Closes(p) \/ ForceCloses(p) PROVE StartInv'
  BY <1>5 DEF Closes, TxClose, ForceCloses, TxForceClose
<1>6. ASSUME NEW p \in Party, NEW q \in Party, PaysTo(p, q) PROVE StartInv'
  BY <1>6 DEF PaysTo, CanWithdraw, TxWithdraw, Absent
<1> QED
  BY <1>2, <1>3, <1>4, <1>5, <1>6, OneTransaction DEF Transaction, BaseInv

\* The last state may be closed, or a challenge period is over, or it runs, or the last
\* state may be registered.
WayToSettle ==
    \/ CanClose(hist.last)
    \/ CanForceClose
    \/ chan.disputed /\ ~chan.closed /\ ~chan.expired
    \/ CanDispute(hist.last)

\* The parties' calls never lead to a channel that can no longer be settled: as long as
\* it is not, the contract accepts the next call of a party that has the last state, or
\* accepts a force close when the challenge period is over.
THEOREM NoDeadEnd == Spec => [](settled = -1 => WayToSettle)
<1>1. Init => StartInv
  BY DEF Init, StartInv, Absent
<1>2. BaseInv /\ StartInv => (settled = -1 => WayToSettle)
  <2> SUFFICES ASSUME BaseInv, StartInv, settled = -1 PROVE WayToSettle
    OBVIOUS
  <2>1. chan.open /\ ~chan.closed /\ FullyFunded /\ hist.last \in Nat
    BY EndVersions DEF BaseInv, ChanInv, TypeOK, ContractTypeOK, Versions
  <2>2. CASE chan.disputed
    BY <2>1, <2>2 DEF WayToSettle, CanForceClose
  <2>3. CASE ~chan.disputed /\ hist.final
    BY <2>1, <2>3 DEF WayToSettle, CanClose, Final
  <2>4. CASE ~chan.disputed /\ ~hist.final
    <3>1. chan.version = 0
      BY <2>1, <2>4 DEF StartInv
    <3> QED
      BY <2>1, <2>4, <3>1 DEF WayToSettle, CanDispute, Final
  <2> QED
    BY <2>2, <2>3, <2>4
<1> QED
  BY <1>1, <1>2, StartStep, BaseAlways, PTL DEF Spec

-----------------------------------------------------------------------------
(* Calls come to an end *)

\* How many calls of the contract p's Withdraw has ahead at most.
CallsLeft(p) ==
    CASE pc[p] = "read" -> 5
      [] pc[p] = "close" -> 4
      [] pc[p] \in {"reread", "forceClose"} -> 3
      [] pc[p] = "withdrawOther" -> 2
      [] pc[p] = "withdraw" -> 1
      [] OTHER -> 0

Runs(p) == ReadStep(p) \/ CloseStep(p) \/ ForceCloseStep(p) \/ WithdrawStep(p)

LEMMA RunAdvances ==
    ASSUME BaseInv, NEW p \in Party, Runs(p)
    PROVE  /\ CallsLeft(p)' < CallsLeft(p)
           /\ \A q \in Party : q # p => pc'[q] = pc[q]
<1>0. TypeOK
  BY DEF BaseInv
<1> USE <1>0 DEF TypeOK, Goto, Return, CallsLeft
<1>1. CASE ReadStep(p)
  <2>1. CASE ReadFails(p) \/ ReadNotClosed(p)
    BY <2>1 DEF ReadFails, ReadNotClosed
  <2>2. CASE ReadClosed(p)
    BY <2>2, HandleWithdrawalEnds DEF ReadClosed
  <2> QED
    BY <1>1, <2>1, <2>2 DEF ReadStep
<1>2. CASE CloseStep(p)
  <2>1. CASE CloseApplied(p) \/ CloseFails(p) \/ RereadFails(p)
    BY <2>1 DEF CloseApplied, CloseFails, RereadFails
  <2>2. CASE Reread(p)
    BY <2>2, HandleWithdrawalEnds DEF Reread
  <2> QED
    BY <1>2, <2>1, <2>2 DEF CloseStep
<1>3. CASE ForceCloseStep(p)
  <2>1. CASE ForceCloseUndecoded(p) \/ ForceCloseFails(p)
    BY <2>1 DEF ForceCloseUndecoded, ForceCloseFails
  <2>2. CASE ForceCloseSucceeds(p)
    BY <2>2, HandleWithdrawalEnds DEF ForceCloseSucceeds
  <2> QED
    BY <1>3, <2>1, <2>2 DEF ForceCloseStep
<1>4. CASE WithdrawStep(p)
  <2>1. CASE OtherSucceeds(p)
    <3>1. /\ pc[p] = "withdrawOther"
          /\ \/ pc' = [pc EXCEPT ![p] = "withdraw"]
             \/ pc' = [pc EXCEPT ![p] = "idle"]
      BY <2>1 DEF OtherSucceeds, WithdrawSelf
    <3> QED
      BY <3>1
  <2>2. CASE OtherUndecoded(p) \/ OtherFails(p)
    <3>1. pc[p] = "withdrawOther" /\ pc' = [pc EXCEPT ![p] = "withdraw"]
      BY <2>2 DEF OtherUndecoded, OtherFails
    <3> QED
      BY <3>1
  <2>3. CASE WithdrawSucceeds(p) \/ WithdrawUndecoded(p) \/ WithdrawFails(p)
    <3>1. pc[p] = "withdraw" /\ pc' = [pc EXCEPT ![p] = "idle"]
      BY <2>3 DEF WithdrawSucceeds, WithdrawUndecoded, WithdrawFails
    <3> QED
      BY <3>1
  <2> QED
    BY <1>4, <2>1, <2>2, <2>3 DEF WithdrawStep
<1> QED
  BY <1>1, <1>2, <1>3, <1>4 DEF Runs

\* Withdraw does not run for ever: no answer of the contract, no failure and no step of
\* the peer sends it back to a call that it has made before.
THEOREM WithdrawAdvances ==
    Spec => [][\A p \in Party :
                  /\ Runs(p) => CallsLeft(p)' < CallsLeft(p)
                  /\ pc[p] # "idle" => CallsLeft(p)' <= CallsLeft(p)]_vars
<1>1. ASSUME BaseInv, [Next]_vars, NEW p \in Party
      PROVE  /\ Runs(p) => CallsLeft(p)' < CallsLeft(p)
             /\ pc[p] # "idle" => CallsLeft(p)' <= CallsLeft(p)
  <2>1. CallsLeft(p) \in Nat /\ CallsLeft(p)' \in Nat
    BY DEF CallsLeft
  <2>2. ASSUME pc'[p] = pc[p] PROVE CallsLeft(p)' <= CallsLeft(p)
    BY <2>1, <2>2 DEF CallsLeft
  <2>3. ASSUME NEW q \in Party, Withdraw(q), pc[p] # "idle" PROVE pc'[p] = pc[p]
    BY <1>1, <2>3 DEF Withdraw, BaseInv, TypeOK
  <2>4. ASSUME NEW q \in Party, Register(q) \/ Watch(q) PROVE pc'[p] = pc[p]
    BY <2>4 DEF Register, Watch, Registers
  <2>5. ASSUME RegisterFails \/ ChallengeEnds \/ UNCHANGED vars PROVE pc'[p] = pc[p]
    BY <2>5 DEF RegisterFails, ChallengeEnds, vars, callVars
  <2>6. ASSUME NEW q \in Party, Runs(q), q # p PROVE pc'[p] = pc[p]
    BY <1>1, <2>6, RunAdvances
  <2>7. Runs(p) => CallsLeft(p)' < CallsLeft(p)
    BY <1>1, RunAdvances
  <2>8. [Next]_vars => \/ \E q \in Party : Runs(q) \/ Withdraw(q) \/ Register(q) \/ Watch(q)
                       \/ RegisterFails \/ ChallengeEnds \/ UNCHANGED vars
    BY DEF Next, Settling, Runs
  <2>9. pc[p] # "idle" => Runs(p) \/ pc'[p] = pc[p]
    BY <1>1, <2>3, <2>4, <2>5, <2>6, <2>8
  <2> QED
    BY <2>1, <2>2, <2>7, <2>9
<1>2. BaseInv /\ [Next]_vars
        => [\A p \in Party :
              /\ Runs(p) => CallsLeft(p)' < CallsLeft(p)
              /\ pc[p] # "idle" => CallsLeft(p)' <= CallsLeft(p)]_vars
  BY <1>1
<1> QED
  BY <1>2, BaseAlways, PTL DEF Spec

-----------------------------------------------------------------------------
(* Adjudication implements Settlement *)

LEMMA PromisedInit == Init => Promised!Init
<1> SUFFICES ASSUME Init PROVE Promised!Init
  OBVIOUS
<1>1. \A r \in Party, a \in Asset : wallet[r][a] - Endowment[r][a] = 0
  BY EndowmentAssumption DEF Init
<1> QED
  BY <1>1 DEF Init, Promised!Init, Promised!Nothing

\* A transaction settles the channel, or pays one party, or is a stutter of
\* Settlement, as a payment of nothing is.
LEMMA PromisedStep == IInv /\ [Next]_vars => [Promised!Next]_(Promised!vars)
<1> SUFFICES ASSUME IInv, [Next]_vars
             PROVE  Promised!Next \/ UNCHANGED Promised!vars
  OBVIOUS
<1> DEFINE Due == [v \in Versions |->
                     [r \in Party |-> [a \in Asset |-> Share(v, r, a)]]]
           Paid == [r \in Party |-> [a \in Asset |-> wallet[r][a] - Endowment[r][a]]]
<1>1. hist' = hist
  BY Constant
<1>2. Due' = Due
  BY <1>1 DEF Versions, Share
<1>3. settled \in Versions \cup {-1} /\ settled' \in Versions \cup {-1}
  BY ContractTypeStep DEF IInv, TypeOK
<1>4. CASE ~\E p \in Party, q \in Party : PaysTo(p, q)
  <2>1. Paid' = Paid
    BY <1>4, NoPayment
  <2>2. settled' = settled \/ (settled = -1 /\ settled' \in Versions)
    BY <1>3, <1>4, NoPayment
  <2>3. DOMAIN Due = Versions
    OBVIOUS
  <2>4. CASE settled' = settled
    BY <1>2, <2>1, <2>4 DEF Promised!vars
  <2>5. CASE settled = -1 /\ settled' \in Versions
    <3>1. Promised!Settle
      BY <1>2, <2>1, <2>3, <2>5 DEF Promised!Settle
    <3> QED
      BY <3>1 DEF Promised!Next
  <2> QED
    BY <2>2, <2>4, <2>5
<1>5. ASSUME NEW p \in Party, NEW q \in Party, PaysTo(p, q)
      PROVE  Promised!Next
  <2>1. settled # -1 /\ settled' = settled /\ settled \in Versions
    BY <1>3, <1>5, Payment
  <2>2. ASSUME NEW a \in Asset
        PROVE  /\ wallet[q][a] = Endowment[q][a] /\ Endowment[q][a] \in Int
               /\ Share(settled, q, a) \in Int
               /\ wallet'[q][a] = wallet[q][a] + Share(settled, q, a)
    BY <1>5, <2>1, Payment, ShareNat, EndowmentAssumption
       DEF IInv, MoneyInv, TypeOK, ContractTypeOK
  <2>3. \A r \in Party, a \in Asset : r # q => wallet'[r][a] = wallet[r][a]
    BY <1>5, Payment
  <2>4. Paid[q] = Promised!Nothing
    BY <2>2 DEF Promised!Nothing
  <2>5. Due[settled][q] = [a \in Asset |-> Share(settled, q, a)]
    BY <2>1
  <2>6. Paid' = [Paid EXCEPT ![q] = Due[settled][q]]
    <3>1. [a \in Asset |-> wallet'[q][a] - Endowment[q][a]] = Due[settled][q]
      BY <2>2, <2>5
    <3>2. \A r \in Party : r # q => [a \in Asset |-> wallet'[r][a] - Endowment[r][a]]
                                    = [a \in Asset |-> wallet[r][a] - Endowment[r][a]]
      BY <2>3
    <3> QED
      BY <3>1, <3>2
  <2>7. Promised!Pay(q)
    BY <1>2, <2>1, <2>4, <2>6 DEF Promised!Pay
  <2> QED
    BY <2>7 DEF Promised!Next
<1> QED
  BY <1>4, <1>5

\* The channel is settled once, with one signed state, and each party is paid its
\* whole share of that state, once at most.
THEOREM ImplementsSettlement == Spec => KeepsSettlement
<1>1. (FinalIsShared => IInv) /\ [Next]_vars
        => [FinalIsShared => [Promised!Next]_(Promised!vars)]_vars
  BY PromisedStep
<1> QED
  BY <1>1, PromisedInit, IInvAlways, PTL DEF Spec, KeepsSettlement
=============================================================================
