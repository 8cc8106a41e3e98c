----------------------- MODULE PerunContract_proofs -----------------------
(***************************************************************************)
(* Facts about the contract that the proofs of the components share: the   *)
(* shares of the signed states, and the types that every transaction       *)
(* keeps.                                                                  *)
(***************************************************************************)
EXTENDS PerunContract, TLAPS

\* The record that the contract stores of a channel.
ChanType == [open : BOOLEAN, funded : [Party -> BOOLEAN],
             closed : BOOLEAN, withdrawn : [Party -> BOOLEAN],
             disputed : BOOLEAN, expired : BOOLEAN, version : Versions]

-----------------------------------------------------------------------------
(* Histories *)

\* The shares of the states of a history are natural numbers.
LEMMA ShareNat ==
    ASSUME hist \in Histories, NEW v \in Versions, NEW p \in Party, NEW a \in Asset
    PROVE  Share(v, p, a) \in Nat
<1>1. IsHistory(hist)
  BY HistoriesAssumption
<1>2. hist.bal[v][a][p] \in Nat
  BY <1>1 DEF IsHistory, Versions, Allocation
<1> QED
  BY <1>2 DEF Share

\* Every state of a history distributes the same amount.
LEMMA SameTotal ==
    ASSUME hist \in Histories, NEW v \in Versions, NEW w \in Versions, NEW a \in Asset
    PROVE  Share(v, 0, a) + Share(v, 1, a) = Share(w, 0, a) + Share(w, 1, a)
<1>1. IsHistory(hist)
  BY HistoriesAssumption
<1>2. /\ hist.bal[v][a][0] + hist.bal[v][a][1] = hist.bal[0][a][0] + hist.bal[0][a][1]
      /\ hist.bal[w][a][0] + hist.bal[w][a][1] = hist.bal[0][a][0] + hist.bal[0][a][1]
  BY <1>1 DEF IsHistory, Versions
<1> QED
  BY <1>2 DEF Share

\* The first and the last version are versions of every history.
LEMMA EndVersions ==
    ASSUME hist \in Histories
    PROVE  /\ 0 \in Versions
           /\ hist.last \in Versions
           /\ Versions \subseteq Nat
<1>1. hist.last \in Nat
  BY HistoriesAssumption DEF IsHistory
<1> QED
  BY <1>1 DEF Versions

-----------------------------------------------------------------------------
(* Types *)

LEMMA AbsentType ==
    ASSUME hist \in Histories
    PROVE  Absent \in ChanType
BY EndVersions DEF Absent, Neither, ChanType

LEMMA OpenType ==
    ASSUME ContractTypeOK, TxOpen
    PROVE  ContractTypeOK'
BY AbsentType DEF ContractTypeOK, TxOpen, Versions, ChanType

LEMMA FundType ==
    ASSUME ContractTypeOK, NEW p \in Party, TxFund(p)
    PROVE  ContractTypeOK'
<1>1. \A a \in Asset : Share(0, p, a) \in Int
  BY ShareNat, EndVersions DEF ContractTypeOK
<1>2. [q \in Party |-> \/ q = p \/ chan.funded[q] \/ OwesNothing(0, q)]
        \in [Party -> BOOLEAN]
  BY DEF ContractTypeOK, OwesNothing
<1>3. [a \in Asset |-> wallet[p][a] - Share(0, p, a)] \in [Asset -> Int]
  BY <1>1 DEF ContractTypeOK
<1>4. hist' = hist /\ Versions' = Versions
  BY DEF TxFund, Versions
<1>5. chan' \in ChanType
  BY <1>2 DEF ContractTypeOK, TxFund, ChanType
<1>6. wallet' \in [Party -> [Asset -> Int]]
  BY <1>3 DEF ContractTypeOK, TxFund
<1>7. held' \in [Asset -> Int]
  BY <1>1 DEF ContractTypeOK, TxFund
<1> QED
  BY <1>4, <1>5, <1>6, <1>7 DEF ContractTypeOK, ChanType

LEMMA AbortType ==
    ASSUME ContractTypeOK, NEW p \in Party, TxAbort(p)
    PROVE  ContractTypeOK'
<1>1. \A a \in Asset : Share(0, p, a) \in Int
  BY ShareNat, EndVersions DEF ContractTypeOK
<1>2. [a \in Asset |-> wallet[p][a] + Share(0, p, a)] \in [Asset -> Int]
  BY <1>1 DEF ContractTypeOK
<1> QED
  BY <1>1, <1>2, AbsentType DEF ContractTypeOK, TxAbort, Versions, ChanType

LEMMA DisputeType ==
    ASSUME ContractTypeOK, NEW v \in Versions, TxDispute(v)
    PROVE  ContractTypeOK'
BY DEF ContractTypeOK, TxDispute, Versions

LEMMA ElapseType ==
    ASSUME ContractTypeOK, Elapse
    PROVE  ContractTypeOK'
BY DEF ContractTypeOK, Elapse, Versions

LEMMA CloseType ==
    ASSUME ContractTypeOK, NEW v \in Versions, TxClose(v)
    PROVE  ContractTypeOK'
BY DEF ContractTypeOK, TxClose, Versions

LEMMA ForceCloseType ==
    ASSUME ContractTypeOK, TxForceClose
    PROVE  ContractTypeOK'
BY DEF ContractTypeOK, TxForceClose, Versions

LEMMA WithdrawType ==
    ASSUME ContractTypeOK, NEW q \in Party, TxWithdraw(q)
    PROVE  ContractTypeOK'
<1>1. chan.version \in Versions
  BY DEF ContractTypeOK
<1>2. \A a \in Asset : Share(chan.version, q, a) \in Int
  BY <1>1, ShareNat DEF ContractTypeOK
<1>3. Versions' = Versions /\ hist' = hist
  BY DEF TxWithdraw, Versions
<1>4. [p \in Party |-> \/ p = q
                       \/ chan.withdrawn[p]
                       \/ OwesNothing(chan.version, p)] \in [Party -> BOOLEAN]
  BY DEF ContractTypeOK, OwesNothing
<1>5. Absent \in ChanType
  BY AbsentType DEF ContractTypeOK
<1>6. chan' \in ChanType
  BY <1>4, <1>5 DEF ContractTypeOK, TxWithdraw, ChanType
<1>7. [a \in Asset |-> wallet[q][a] + Share(chan.version, q, a)] \in [Asset -> Int]
  BY <1>2 DEF ContractTypeOK
<1>8. wallet' \in [Party -> [Asset -> Int]]
  BY <1>7 DEF ContractTypeOK, TxWithdraw
<1>9. held' \in [Asset -> Int]
  BY <1>2 DEF ContractTypeOK, TxWithdraw
<1> QED
  BY <1>3, <1>6, <1>8, <1>9 DEF ContractTypeOK, ChanType
=============================================================================
