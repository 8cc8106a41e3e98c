-------------------------- MODULE SignedCall_proofs --------------------------
(***************************************************************************)
(* The mutual exclusion of one ContractBackend, and what its methods       *)
(* promise, for any number of goroutines and of failures, for every        *)
(* behaviour of the peer, and wherever a late transaction is included.     *)
(***************************************************************************)
EXTENDS SignedCall, PerunContract_proofs

\* The steps between Lock and Unlock.
Critical == {"account", "simulate", "submit", "fetch"}

\* The variables of the calls; the type of call[c] in full.
Call_ == [name : Methods \cup {"get_channel"}, version : Versions]
CallTypeOK ==
    /\ faults \in 0..MaxFaults
    /\ mutex \in {{}} \cup {{c} : c \in Callers}
    /\ pc \in [Callers -> {"idle", "lock", "account", "simulate", "submit",
                           "fetch", "assert"}]
    /\ call \in [Callers -> Call_]
    /\ fresh \in [Callers -> {"current", "overtaken", "stale"}]
    /\ reads \in [Callers -> {"nothing", "balance", "channel"}]
    /\ late \subseteq [by : SUBSET Callers, call : Call_]
    /\ served \in [Callers -> {0, 1}]
    /\ outcome \in [Callers -> {"idle", "running", "nil", "error"}]

\* Whoever is between Lock and Unlock holds the mutex, and so is alone there; nobody
\* else holds it.
MutexInv == \A c \in Callers : pc[c] \in Critical <=> mutex = {c}

\* The account that the holder of the mutex has read is not made stale by others.
FreshInv == \A c \in Callers : pc[c] \in {"simulate", "submit"} <=> fresh[c] # "stale"

\* Only Withdraw reads after its transaction, and no method reads the channel again.
ReadsInv ==
    \A c \in Callers :
        /\ reads[c] # "channel"
        /\ reads[c] = "balance" => /\ pc[c] \in {"lock", "account", "simulate"}
                                  /\ call[c].name = "withdraw"

\* A call is served between its submission and its result, and only then, or by
\* a late transaction, which belongs to a call that has returned an error.
ServedInv ==
    \A c \in Callers :
        /\ pc[c] = "idle" <=> outcome[c] # "running"
        /\ outcome[c] = "idle" => served[c] = 0
        /\ pc[c] \in {"lock", "account", "simulate", "submit"} /\ reads[c] = "nothing"
              => served[c] = 0
        /\ pc[c] \in {"fetch", "assert"} \/ reads[c] = "balance" => served[c] = 1
        /\ \A t \in late : c \in t.by => outcome[c] = "error" /\ served[c] = 0

\* A goroutine that is idle has no call, and the events of the transaction whose result
\* is read are those that its method emits.
TopicsOf(name) ==
    CASE name = "open" -> {<<"open">>}
      [] name = "fund" -> {<<"transfer", "fund">>, <<"transfer", "fund", "fund_c">>}
      [] name = "abort_funding" -> {<<"transfer">>}
      [] name = "dispute" -> {<<"dispute">>}
      [] name = "close" -> {<<"closed">>}
      [] name = "force_close" -> {<<"f_closed">>}
      [] name = "withdraw" -> {<<"transfer", "withdraw">>,
                               <<"transfer", "withdraw", "pay_c">>}
      [] OTHER -> {}
TopicsInv ==
    /\ DOMAIN topics = Callers
    /\ \A c \in Callers :
          /\ pc[c] = "idle" => call[c] = NoCall
          /\ pc[c] \in {"fetch", "assert"} \/ reads[c] = "balance"
                => call[c].name = "get_channel" \/ topics[c] \in TopicsOf(call[c].name)

IInv ==
    /\ ContractTypeOK /\ CallTypeOK
    /\ MutexInv /\ FreshInv /\ ReadsInv /\ ServedInv /\ TopicsInv

LEMMA InitInv == Init => IInv
<1> SUFFICES ASSUME Init PROVE IInv
  OBVIOUS
<1> USE DEF Init, ContractInit
<1>1. 0 \in Versions
  BY EndVersions
<1>2. ContractTypeOK
  BY AbsentType, EndowmentAssumption DEF ContractTypeOK, ChanType
<1>3. CallTypeOK
  BY <1>1, MaxFaultsAssumption DEF CallTypeOK, Call_, NoCall
<1>4. MutexInv /\ FreshInv /\ ReadsInv /\ ServedInv /\ TopicsInv
  BY DEF MutexInv, FreshInv, ReadsInv, ServedInv, TopicsInv, Critical
<1> QED
  BY <1>2, <1>3, <1>4 DEF IInv

-----------------------------------------------------------------------------
(* The contract *)

\* A call that the contract carries out, of this party or of its peer.
LEMMA AppliesType ==
    ASSUME ContractTypeOK, NEW m \in Call_, Applies(m)
    PROVE  ContractTypeOK' /\ hist' = hist
<1>1. m.version \in Versions
  BY DEF Call_
<1>2. ContractTypeOK'
  BY <1>1, MeAssumption, OpenType, FundType, AbortType, DisputeType, CloseType,
     ForceCloseType, WithdrawType DEF Applies
<1>3. hist' = hist
  BY DEF Applies, TxOpen, TxFund, TxAbort, TxDispute, TxClose, TxForceClose,
     TxWithdraw
<1> QED
  BY <1>2, <1>3

LEMMA PeerType ==
    ASSUME ContractTypeOK, PeerActs
    PROVE  ContractTypeOK' /\ hist' = hist
<1>1. Peer(Me) \in Party
  BY MeAssumption DEF Peer, Party
<1>2. ContractTypeOK'
  BY <1>1, OpenType, FundType, AbortType, DisputeType, CloseType, ForceCloseType,
     WithdrawType, ElapseType DEF PeerActs
<1>3. hist' = hist
  BY DEF PeerActs, TxOpen, TxFund, TxAbort, TxDispute, TxClose, TxForceClose,
     TxWithdraw, Elapse
<1> QED
  BY <1>2, <1>3

LEMMA ContractStep ==
    ASSUME IInv, [Next]_vars
    PROVE  ContractTypeOK' /\ hist' = hist
<1>0. /\ ContractTypeOK
      /\ \A t \in late : t.call \in Call_
      /\ \A c \in Callers : call[c] \in Call_
  BY DEF IInv, CallTypeOK
<1>1. ASSUME UNCHANGED contractVars PROVE ContractTypeOK' /\ hist' = hist
  BY <1>0, <1>1 DEF contractVars, ContractTypeOK, Versions
<1>2. ASSUME NEW c \in Callers, Call(c) \/ Lock(c) PROVE UNCHANGED contractVars
  BY <1>2 DEF Call, Lock
<1>3. ASSUME NEW c \in Callers, Runs(c), ~SubmitApplied(c)
      PROVE  UNCHANGED contractVars
  BY <1>3 DEF Runs, ReadAccount, SimulateRead, Simulate, SimulateRejected,
     SubmitRejected, SubmitOutdated, SubmitTimesOut, Fetch, ReadBalance, RequestFails,
     DecodeFails, Return
<1>4. ASSUME NEW c \in Callers, SubmitApplied(c)
      PROVE  ContractTypeOK' /\ hist' = hist
  BY <1>0, <1>4, AppliesType DEF SubmitApplied
<1>5. CASE LateIsIncluded
  BY <1>0, <1>1, <1>5, AppliesType DEF LateIsIncluded
<1>6. CASE PeerActs
  BY <1>0, <1>6, PeerType
<1>7. CASE UNCHANGED vars
  BY <1>1, <1>7 DEF vars
<1> QED
  BY <1>1, <1>2, <1>3, <1>4, <1>5, <1>6, <1>7 DEF Next

-----------------------------------------------------------------------------
(* Events *)

\* Every method finds what it looks for among the events that it emits.
LEMMA EventsAreFound ==
    ASSUME NEW m, NEW ts \in TopicsOf(m.name)
    PROVE  /\ ~MissesEvent(m, DecodeEventsPerun(ts))
           /\ ReturnsNil(m, DecodeEventsPerun(ts)) <=> m.name # "close"
<1> DEFINE evs == DecodeEventsPerun(ts)
<1>1. ASSUME NEW e \in evs
      PROVE  e.at \in DOMAIN ts /\ e.topic = ts[e.at] /\ Decodes(ts[e.at])
  BY <1>1 DEF DecodeEventsPerun
<1>2. CASE m.name = "open"
  <2>1. ts = <<"open">>
    BY <1>2 DEF TopicsOf
  <2>2. 1 \in DOMAIN ts /\ ts[1] = "open"
    BY <2>1
  <2>3. [at |-> 1, topic |-> ts[1]] \in evs
    BY <2>2 DEF DecodeEventsPerun, Decodes
  <2> QED
    BY <1>2, <2>2, <2>3 DEF MissesEvent, ReturnsNil, AssertOpenEvent
<1>3. CASE m.name = "abort_funding"
  BY <1>3 DEF MissesEvent, ReturnsNil
<1>4. CASE m.name = "fund"
  <2>1. ASSUME NEW e \in evs PROVE e.topic = "fund"
    BY <1>1, <1>4, <2>1 DEF TopicsOf, Decodes
  <2> QED
    BY <1>4, <2>1 DEF MissesEvent, ReturnsNil, AssertFundedEvent, Asserts
<1>5. CASE m.name = "force_close"
  <2>1. ASSUME NEW e \in evs PROVE e.topic = "f_closed"
    BY <1>1, <1>5, <2>1 DEF TopicsOf, Decodes
  <2> QED
    BY <1>5, <2>1 DEF MissesEvent, ReturnsNil, AssertForceCloseEvent, Asserts
<1>6. CASE m.name = "dispute"
  <2>1. ASSUME NEW e \in evs PROVE e.topic = "dispute"
    BY <1>1, <1>6, <2>1 DEF TopicsOf, Decodes
  <2> QED
    BY <1>6, <2>1 DEF MissesEvent, ReturnsNil, AssertDisputeEvent, Asserts
<1>7. CASE m.name = "withdraw"
  <2>1. ASSUME NEW e \in evs PROVE e.topic = "pay_c"
    BY <1>1, <1>7, <2>1 DEF TopicsOf, Decodes
  <2> QED
    BY <1>7, <2>1 DEF MissesEvent, ReturnsNil, AssertWithdrawEvent, Asserts
<1>8. CASE m.name = "close"
  <2>1. ASSUME NEW e \in evs PROVE e.topic = "closed"
    BY <1>1, <1>8, <2>1 DEF TopicsOf, Decodes
  <2> QED
    BY <1>8, <2>1 DEF MissesEvent, ReturnsNil, AssertCloseEvent, Asserts
<1> QED
  BY <1>2, <1>3, <1>4, <1>5, <1>6, <1>7, <1>8 DEF TopicsOf

\* So a decoded call ends, with an error exactly for Close.
LEMMA ReturnEnds ==
    ASSUME CallTypeOK, TopicsInv, NEW c \in Callers, Return(c)
    PROVE  End(c, IF call[c].name = "close" THEN "error" ELSE "nil")
<1>1. CASE call[c].name = "get_channel"
  BY <1>1 DEF Return, MissesEvent, ReturnsNil
<1>2. CASE call[c].name # "get_channel"
  <2>1. topics[c] \in TopicsOf(call[c].name)
    BY <1>2 DEF TopicsInv, Return
  <2> QED
    BY <2>1, EventsAreFound DEF Return
<1> QED
  BY <1>1, <1>2

-----------------------------------------------------------------------------

(* The calls *)

\* What a call that ends does to the variables of its goroutine.
LEMMA EndStep ==
    ASSUME IInv, Versions' = Versions, NEW c \in Callers,
           NEW value \in {"nil", "error"},
           pc[c] \in Critical \/ pc[c] = "assert",
           End(c, value), mutex' = IF pc[c] = "assert" THEN mutex ELSE {},
           faults' \in 0..MaxFaults,
           served' = served,
           reads[c] = "nothing",
           \/ late' \in {late, {}}
           \/ /\ late' = late \cup {[by |-> {c}, call |-> call[c]]}
              /\ pc[c] = "submit" /\ value = "error"
    PROVE  CallTypeOK' /\ MutexInv' /\ FreshInv' /\ ReadsInv' /\ ServedInv'
<1> USE DEF IInv, CallTypeOK, End, Goto
<1>1. 0 \in Versions
  BY EndVersions DEF ContractTypeOK
<1>2. NoCall \in Call_ /\ Call_' = Call_
  BY <1>1 DEF NoCall, Call_
<1>3. late' \subseteq [by : SUBSET Callers, call : Call_]
  BY <1>2
<1>4. CallTypeOK'
  BY <1>2, <1>3
<1>5. MutexInv'
  <2>1. pc' = [pc EXCEPT ![c] = "idle"] /\ "idle" \notin Critical
    BY DEF Critical
  <2>2. \A d \in Callers : pc[d] \in Critical <=> mutex = {d}
    BY DEF MutexInv
  <2>3. CASE pc[c] = "assert"
    <3>1. pc[c] \notin Critical /\ mutex' = mutex
      BY <2>3 DEF Critical
    <3> QED
      BY <2>1, <2>2, <3>1 DEF MutexInv
  <2>4. CASE pc[c] # "assert"
    <3>1. mutex = {c} /\ mutex' = {}
      BY <2>2, <2>4
    <3>2. ASSUME NEW d \in Callers PROVE pc'[d] \notin Critical
      <4>1. CASE d = c
        BY <2>1, <4>1
      <4>2. CASE d # c
        <5>1. pc[d] \notin Critical
          BY <2>2, <3>1, <4>2
        <5> QED
          BY <2>1, <4>2, <5>1
      <4> QED
        BY <4>1, <4>2
    <3>3. \A d \in Callers : mutex' # {d}
      BY <3>1
    <3> HIDE DEF IInv, End, Goto
    <3> QED
      BY <3>2, <3>3 DEF MutexInv, Critical
  <2> QED
    BY <2>3, <2>4
<1>6. FreshInv'
  <2>1. /\ pc' = [pc EXCEPT ![c] = "idle"]
        /\ fresh' = [fresh EXCEPT ![c] = "stale"]
    OBVIOUS
  <2> QED
    BY <2>1 DEF FreshInv
<1>7. ServedInv'
  <2>1. ASSUME NEW d \in Callers, NEW t \in late', d \in t.by
        PROVE  outcome'[d] = "error" /\ served'[d] = 0
    <3>1. CASE t \in late
      <4>1. outcome[d] = "error" /\ served[d] = 0 /\ pc[d] = "idle"
        BY <2>1, <3>1 DEF ServedInv
      <4> QED
        BY <4>1 DEF Critical
    <3>2. CASE t \notin late
      <4>1. pc[c] = "submit" /\ value = "error" /\ t.by = {c}
        BY <2>1, <3>2
      <4> QED
        BY <2>1, <4>1 DEF ServedInv
    <3> QED
      BY <3>1, <3>2
  <2> QED
    BY <2>1 DEF ServedInv, Critical
<1>8. ReadsInv'
  BY DEF ReadsInv
<1> QED
  BY <1>4, <1>5, <1>6, <1>7, <1>8

LEMMA CallStep ==
    ASSUME IInv, [Next]_vars
    PROVE  CallTypeOK' /\ MutexInv' /\ FreshInv' /\ ReadsInv' /\ ServedInv'
<1> DEFINE Goal == CallTypeOK' /\ MutexInv' /\ FreshInv' /\ ReadsInv' /\ ServedInv'
<1>1. Versions' = Versions /\ Call_' = Call_
  BY ContractStep DEF Versions, Call_
<1>2. NoFault \/ Fault => faults' \in 0..MaxFaults
  BY MaxFaultsAssumption DEF NoFault, Fault, IInv, CallTypeOK
<1> USE <1>1
<1>3. ASSUME UNCHANGED callVars, faults' \in 0..MaxFaults PROVE Goal
  BY <1>3 DEF callVars, IInv, CallTypeOK, MutexInv, FreshInv, ReadsInv, ServedInv
<1>4. ASSUME NEW c \in Callers, Call(c) PROVE Goal
  <2> USE DEF IInv, CallTypeOK, Call, Goto
  <2>1. PICK m \in Call_ : call' = [call EXCEPT ![c] = m]
    BY <1>4 DEF Call_
  <2>2. /\ late' \subseteq [by : SUBSET Callers, call : Call_]
        /\ \A t \in late' : \E u \in late : t.by = u.by \ {c}
    BY <1>4
  <2>3. CallTypeOK'
    BY <1>4, <2>1, <2>2
  <2>4. MutexInv' /\ FreshInv' /\ ReadsInv'
    BY <1>4 DEF MutexInv, FreshInv, ReadsInv, Critical
  <2>5. ServedInv'
    BY <1>4, <2>2 DEF ServedInv, ReadsInv
  <2> QED
    BY <2>3, <2>4, <2>5
<1>5. ASSUME NEW c \in Callers, Lock(c) PROVE Goal
  <2> USE <1>5 DEF IInv, CallTypeOK, Lock, Goto
  <2>1. CallTypeOK'
    OBVIOUS
  <2>2. MutexInv' /\ FreshInv' /\ ReadsInv'
    BY DEF MutexInv, FreshInv, ReadsInv, Critical
  <2>3. ServedInv'
    BY DEF ServedInv
  <2> QED
    BY <2>1, <2>2, <2>3
<1>6. ASSUME NEW c \in Callers, ReadAccount(c) \/ Simulate(c) PROVE Goal
  <2> USE <1>6 DEF IInv, CallTypeOK, ReadAccount, Simulate, Goto, NoFault
  <2>1. CallTypeOK'
    OBVIOUS
  <2>2. MutexInv' /\ FreshInv' /\ ReadsInv'
    BY DEF MutexInv, FreshInv, ReadsInv, Critical
  <2>3. ServedInv'
    BY DEF ServedInv
  <2> QED
    BY <2>1, <2>2, <2>3
<1>7. ASSUME NEW c \in Callers, SimulateRead(c) \/ Fetch(c) PROVE Goal
  <2> USE <1>7 DEF IInv, CallTypeOK, SimulateRead, Fetch, Goto, NoFault
  <2>0. reads[c] = "nothing" /\ (pc[c] = "simulate" => served[c] = 0)
    BY DEF ServedInv, ReadsInv
  <2>1. CallTypeOK'
    BY <2>0
  <2>2. MutexInv' /\ FreshInv'
    BY <2>0 DEF MutexInv, FreshInv, Critical
  <2>3. ServedInv' /\ ReadsInv'
    BY <2>0 DEF ServedInv, ReadsInv
  <2> QED
    BY <2>1, <2>2, <2>3
<1>8. ASSUME NEW c \in Callers,
             \/ SimulateRejected(c) \/ SubmitOutdated(c) \/ RequestFails(c)
      PROVE  Goal
  BY <1>2, <1>8, EndStep DEF SimulateRejected, SubmitOutdated, RequestFails,
     FailUnlocked, Critical, IInv, ReadsInv, CallTypeOK
<1>9. ASSUME NEW c \in Callers, SubmitTimesOut(c) PROVE Goal
  BY <1>2, <1>9, EndStep DEF SubmitTimesOut, FailUnlocked, Critical, IInv, ReadsInv,
     CallTypeOK
<1>10. ASSUME NEW c \in Callers, Return(c) \/ DecodeFails(c) PROVE Goal
  <2>1. pc[c] = "assert" /\ reads[c] = "nothing"
    BY <1>10 DEF Return, DecodeFails, IInv, ReadsInv, CallTypeOK
  <2>2. End(c, "nil") \/ End(c, "error")
    BY <1>10, ReturnEnds DEF DecodeFails, IInv
  <2> QED
    BY <1>2, <1>10, <2>1, <2>2, EndStep DEF Return, DecodeFails, Critical
<1>11. ASSUME NEW c \in Callers, SubmitApplied(c) PROVE Goal
  <2> USE <1>11 DEF IInv, CallTypeOK, SubmitApplied, Included, Goto, NoFault
  <2>1. reads[c] = "nothing"
    BY DEF ReadsInv
  <2>2. CallTypeOK'
    <3>1. served[c] = 0
      BY <2>1 DEF ServedInv
    <3> QED
      BY <3>1
  <2>3. MutexInv'
    BY DEF MutexInv, Critical
  <2>4. FreshInv'
    <3>1. pc[c] = "submit" /\ pc' = [pc EXCEPT ![c] = "fetch"]
      OBVIOUS
    <3>2. ASSUME NEW d \in Callers, d # c PROVE pc[d] \notin {"simulate", "submit"}
      BY <3>1, <3>2 DEF MutexInv, Critical
    <3>3. fresh' = [d \in Callers |-> "stale"]
      OBVIOUS
    <3> HIDE <1>11 DEF SubmitApplied, Included
    <3> QED
      BY <3>1, <3>2, <3>3 DEF FreshInv
  <2>5. ServedInv' /\ ReadsInv'
    BY <2>1 DEF ServedInv, ReadsInv
  <2> QED
    BY <2>2, <2>3, <2>4, <2>5
<1>12. ASSUME NEW c \in Callers, SubmitRejected(c) PROVE Goal
  BY <1>2, <1>12, EndStep DEF SubmitRejected, Included, FailUnlocked, Critical, IInv,
     ReadsInv, CallTypeOK
<1>13. ASSUME LateIsIncluded PROVE Goal
  <2> USE <1>13 DEF IInv, CallTypeOK, LateIsIncluded
  <2>1. PICK t \in late : \/ served' = [c \in Callers |->
                                        served[c] + (IF c \in t.by THEN 1 ELSE 0)]
                          \/ served' = served
    OBVIOUS
  <2>2. /\ served' \in [Callers -> {0, 1}]
        /\ \A c \in Callers : c \notin t.by => served'[c] = served[c]
    BY <2>1 DEF ServedInv
  <2>3. CallTypeOK'
    BY <2>2
  <2>4. MutexInv' /\ FreshInv' /\ ReadsInv'
    BY DEF MutexInv, FreshInv, ReadsInv
  <2>5. ServedInv'
    BY <2>2 DEF ServedInv
  <2> QED
    BY <2>3, <2>4, <2>5
<1>14. ASSUME PeerActs \/ UNCHANGED vars PROVE Goal
  <2>1. UNCHANGED callVars /\ faults' = faults
    BY <1>14 DEF PeerActs, vars
  <2> QED
    BY <1>3, <2>1 DEF IInv, CallTypeOK
<1>15. ASSUME NEW c \in Callers, ReadBalance(c) PROVE Goal
  <2> USE <1>15 DEF IInv, CallTypeOK, ReadBalance, Goto
  <2>1. CallTypeOK'
    BY <1>2
  <2>2. MutexInv' /\ FreshInv'
    BY DEF MutexInv, FreshInv, Critical
  <2>3. ServedInv' /\ ReadsInv'
    BY DEF ServedInv, ReadsInv
  <2> QED
    BY <2>1, <2>2, <2>3
<1> QED
  BY <1>4, <1>5, <1>6, <1>7, <1>8, <1>9, <1>10, <1>11, <1>12, <1>13, <1>14, <1>15
     DEF Next, Runs

\* What a method emits, by its name.
LEMMA EmittedTopics ==
    ASSUME NEW m, Applies(m)
    PROVE  Emitted(m) \in TopicsOf(m.name)
BY DEF Applies, Emitted, TopicsOf

LEMMA TopicsStep ==
    ASSUME IInv, [Next]_vars
    PROVE  TopicsInv'
<1> USE DEF IInv, CallTypeOK, TopicsInv
<1>1. ASSUME NEW c \in Callers, SubmitApplied(c)
      PROVE  TopicsInv'
  <2>1. topics' = [topics EXCEPT ![c] = Emitted(call[c])] /\ UNCHANGED <<call, reads>>
        /\ pc' = [pc EXCEPT ![c] = "fetch"]
    BY <1>1 DEF SubmitApplied, Goto
  <2>2. Emitted(call[c]) \in TopicsOf(call[c].name)
    BY <1>1, EmittedTopics DEF SubmitApplied
  <2> QED
    BY <2>1, <2>2
<1>2. ASSUME NEW c \in Callers, SimulateRead(c)
      PROVE  TopicsInv'
  <2>1. reads[c] = "nothing" /\ call[c].name = "get_channel"
    BY <1>2 DEF SimulateRead, ReadsInv, Sent
  <2>2. UNCHANGED <<call, topics, reads>> /\ pc' = [pc EXCEPT ![c] = "assert"]
    BY <1>2, <2>1 DEF SimulateRead, Goto
  <2> QED
    BY <2>1, <2>2
<1>3. ASSUME NEW c \in Callers, Fetch(c)
      PROVE  TopicsInv'
  BY <1>3 DEF Fetch, Goto
<1>9. ASSUME NEW c \in Callers, ReadBalance(c)
      PROVE  TopicsInv'
  <2>1. /\ UNCHANGED <<call, topics>>
        /\ pc' = [pc EXCEPT ![c] = "assert"]
        /\ reads' = [reads EXCEPT ![c] = "nothing"]
    BY <1>9 DEF ReadBalance, Goto
  <2>2. call[c].name = "get_channel" \/ topics[c] \in TopicsOf(call[c].name)
    BY <1>9 DEF ReadBalance
  <2> QED
    BY <2>1, <2>2
<1>4. ASSUME NEW c \in Callers, NEW value, End(c, value)
      PROVE  TopicsInv'
  BY <1>4 DEF End, Goto
<1>5. ASSUME NEW c \in Callers,
             \/ SimulateRejected(c) \/ SubmitRejected(c) \/ SubmitOutdated(c)
             \/ SubmitTimesOut(c) \/ RequestFails(c) \/ DecodeFails(c) \/ Return(c)
      PROVE  TopicsInv'
  <2>1. PICK value : End(c, value)
    <3>1. CASE Return(c)
      BY <3>1, ReturnEnds
    <3>2. CASE ~Return(c)
      <4>1. End(c, "error")
        BY <1>5, <3>2 DEF SimulateRejected, SubmitRejected, SubmitOutdated,
           SubmitTimesOut, RequestFails, DecodeFails, FailUnlocked
      <4> QED
        BY <4>1
    <3> QED
      BY <3>1, <3>2
  <2> QED
    BY <1>4, <2>1
<1>6. ASSUME NEW c \in Callers, Lock(c) \/ ReadAccount(c) \/ Simulate(c)
      PROVE  TopicsInv'
  BY <1>6 DEF Lock, ReadAccount, Simulate, Goto
<1>7. ASSUME NEW c \in Callers, Call(c) PROVE TopicsInv'
  <2>1. PICK m \in [name : Methods, version : Versions] :
            call' = [call EXCEPT ![c] = m]
    BY <1>7 DEF Call
  <2> QED
    BY <1>7, <2>1 DEF Call, Goto, ReadsInv
<1>8. CASE LateIsIncluded \/ PeerActs \/ UNCHANGED vars
  BY <1>8 DEF LateIsIncluded, PeerActs, vars, callVars
<1> QED
  BY <1>1, <1>2, <1>3, <1>5, <1>6, <1>7, <1>8, <1>9 DEF Next, Runs

LEMMA IInvAlways == Spec => []IInv
<1>1. IInv /\ [Next]_vars => IInv'
  BY ContractStep, CallStep, TopicsStep DEF IInv
<1> QED
  BY <1>1, InitInv, PTL DEF Spec

-----------------------------------------------------------------------------
(* SignedCall implements OneCall *)

\* A step of SignedCall is a step of OneCall, or none, for every goroutine.
LEMMA PromiseStep ==
    ASSUME IInv, [Next]_vars, NEW d \in Callers
    PROVE  Promise(d)!Next \/ UNCHANGED <<served[d], outcome[d]>>
<1> USE DEF IInv, CallTypeOK, Promise!Next
<1> DEFINE Same == UNCHANGED <<served[d], outcome[d]>>
           Fails == outcome[d] = "running" /\ outcome'[d] = "error" /\ UNCHANGED served
<1>1. Fails => Promise(d)!Next
  BY DEF Promise!Fail
<1>2. ASSUME NEW c \in Callers, Call(c) PROVE Promise(d)!Next \/ Same
  BY <1>2 DEF Call, ServedInv, Promise!Begin
<1>3. ASSUME NEW c \in Callers, Lock(c) \/ ReadAccount(c) \/ Simulate(c) \/ Fetch(c)
                             \/ ReadBalance(c)
      PROVE  Same
  BY <1>3 DEF Lock, ReadAccount, Simulate, Fetch, ReadBalance
<1>4. ASSUME NEW c \in Callers, SimulateRead(c) \/ SubmitApplied(c)
      PROVE  Promise(d)!Next \/ Same
  BY <1>4 DEF SimulateRead, SubmitApplied, ServedInv, ReadsInv, Promise!Serve
<1>5. ASSUME NEW c \in Callers, FailUnlocked(c), pc[c] # "idle", served' = served
      PROVE  Fails \/ Same
  BY <1>5 DEF FailUnlocked, End, ServedInv
<1>6. ASSUME NEW c \in Callers,
             \/ SimulateRejected(c) \/ SubmitRejected(c) \/ SubmitOutdated(c)
             \/ SubmitTimesOut(c) \/ RequestFails(c)
      PROVE  Promise(d)!Next \/ Same
  BY <1>1, <1>5, <1>6 DEF SimulateRejected, SubmitRejected, SubmitOutdated,
     SubmitTimesOut, RequestFails
<1>7. ASSUME NEW c \in Callers, Return(c) \/ DecodeFails(c)
      PROVE  Promise(d)!Next \/ Same
  BY <1>1, <1>7, ReturnEnds DEF Return, DecodeFails, End, ServedInv, Promise!Succeed
<1>8. CASE LateIsIncluded
  BY <1>8 DEF LateIsIncluded, ServedInv, Promise!Serve
<1>9. CASE PeerActs \/ UNCHANGED vars
  BY <1>9 DEF PeerActs, vars, callVars
<1> QED
  BY <1>2, <1>3, <1>4, <1>6, <1>7, <1>8, <1>9 DEF Next, Runs

-----------------------------------------------------------------------------
(* Theorems *)

\* The variables of the backend, of its calls and of the contract keep their types.
THEOREM TypeCorrect == Spec => []TypeOK
<1>1. IInv => TypeOK
  BY DEF IInv, CallTypeOK, Call_, TypeOK
<1> QED
  BY <1>1, IInvAlways, PTL

\* Whoever submits holds the mutex, and has the current sequence number, unless a
\* transaction was included that Horizon had given up on.
THEOREM SequenceIsOwn == Spec => []OwnSequence
<1>1. IInv => OwnSequence
  BY DEF IInv, MutexInv, FreshInv, Critical, OwnSequence
<1> QED
  BY <1>1, IInvAlways, PTL

\* One goroutine at most is between Lock and Unlock, and no call leaves the backend locked,
\* whatever becomes of it: the mutex is free, or its holder is still between the two.
THEOREM MutexIsReleased ==
    Spec => [](/\ \A c \in Callers : pc[c] \in Critical <=> mutex = {c}
               /\ mutex # {} => \E c \in Callers : mutex = {c})
<1>1. IInv => /\ \A c \in Callers : pc[c] \in Critical <=> mutex = {c}
              /\ mutex # {} => \E c \in Callers : mutex = {c}
  BY DEF IInv, CallTypeOK, MutexInv
<1> QED
  BY <1>1, IInvAlways, PTL

\* The contract carries out every call at most once, and nil is returned only after
\* that, whatever other goroutines of the same backend and the peer do meanwhile.
THEOREM PromiseIsKept == Spec => KeepsPromise
<1>1. Init => \A c \in Callers : Promise(c)!Init
  BY DEF Init, Promise!Init
<1>2. IInv /\ [Next]_vars
        => [\A c \in Callers : [Promise(c)!Next]_<<served[c], outcome[c]>>]_vars
  BY PromiseStep
<1> QED
  BY <1>1, <1>2, IInvAlways, PTL DEF Spec, KeepsPromise

\* What a step that is not a failure makes of a running call's outcome.
LEMMA ToldStep ==
    ASSUME IInv, [Next]_vars, NEW d \in Callers, outcome[d] = "running",
           served[d] = 1, outcome'[d] # "running"
    PROVE  outcome'[d] = IF call[d].name = "close" \/ faults' # faults
                         THEN "error" ELSE "nil"
<1> USE DEF IInv, CallTypeOK
<1>1. ASSUME NEW c \in Callers, Return(c)
      PROVE  outcome'[d] = IF call[d].name = "close" THEN "error" ELSE "nil"
  BY <1>1, ReturnEnds DEF End
<1>2. ASSUME NEW c \in Callers, RequestFails(c) \/ DecodeFails(c) \/ SubmitTimesOut(c)
      PROVE  outcome'[d] = "error" /\ faults' # faults
  BY <1>2, MaxFaultsAssumption
     DEF RequestFails, DecodeFails, SubmitTimesOut, FailUnlocked, End, Fault
<1>3. ASSUME NEW c \in Callers,
             SimulateRejected(c) \/ SubmitRejected(c) \/ SubmitOutdated(c)
      PROVE  outcome'[d] = outcome[d]
  BY <1>3 DEF SimulateRejected, SubmitRejected, SubmitOutdated, FailUnlocked, End,
     ServedInv, ReadsInv
<1>4. ASSUME NEW c \in Callers,
             \/ Lock(c) \/ ReadAccount(c) \/ SimulateRead(c) \/ Simulate(c)
             \/ SubmitApplied(c) \/ Fetch(c) \/ ReadBalance(c)
      PROVE  outcome' = outcome
  BY <1>4 DEF Lock, ReadAccount, SimulateRead, Simulate, SubmitApplied, Fetch,
     ReadBalance, ReadsInv
<1>5. ASSUME NEW c \in Callers, Call(c) PROVE outcome'[d] = outcome[d]
  BY <1>5 DEF Call, ServedInv
<1>6. CASE LateIsIncluded \/ PeerActs \/ UNCHANGED vars
  BY <1>6 DEF LateIsIncluded, PeerActs, vars, callVars
<1>7. ASSUME NEW c \in Callers, Return(c) PROVE faults' = faults
  BY <1>7 DEF Return, NoFault
<1> QED
  BY <1>1, <1>2, <1>3, <1>4, <1>5, <1>6, <1>7 DEF Next, Runs

\* A call that was carried out, by any method but Close, ends in an error only if a
\* request or the decoding fails: each Assert function accepts the events that its
\* method emits, and no balance that Withdraw still reads is held against it.
THEOREM SuccessTold == Spec => SuccessIsTold
<1>1. IInv /\ [Next]_vars
        => [\A c \in Callers :
              /\ outcome[c] = "running"
              /\ served[c] = 1
              /\ call[c].name # "close"
              /\ outcome'[c] = "error"
              => faults' # faults]_vars
  BY ToldStep
<1> QED
  BY <1>1, IInvAlways, PTL DEF Spec, SuccessIsTold

\* ContractBackend.Close never returns nil: AssertCloseEvent is asked for an error, and
\* the event that a successful close emits is not one.
THEOREM CloseIsNeverTold == Spec => CloseNeverNil
<1>1. ASSUME IInv, [Next]_vars, NEW d \in Callers, call[d].name = "close"
      PROVE  outcome'[d] # "nil"
  <2> USE DEF IInv, CallTypeOK
  <2>1. outcome[d] = "running"
    BY <1>1 DEF ServedInv, TopicsInv, NoCall
  <2>2. CASE outcome'[d] = outcome[d]
    BY <2>1, <2>2
  <2>3. CASE served[d] = 1 /\ outcome'[d] # outcome[d]
    BY <1>1, <2>1, <2>3, ToldStep
  <2>4. CASE served[d] = 0 /\ outcome'[d] # outcome[d]
    <3>1. Promise(d)!Next
      BY <1>1, <2>4, PromiseStep
    <3> QED
      BY <2>1, <2>4, <3>1 DEF Promise!Next, Promise!Begin, Promise!Serve,
         Promise!Succeed, Promise!Fail
  <2> QED
    BY <1>1, <2>2, <2>3, <2>4
<1>2. IInv /\ [Next]_vars
        => [\A c \in Callers : call[c].name = "close" => outcome'[c] # "nil"]_vars
  BY <1>1
<1> QED
  BY <1>2, IInvAlways, PTL DEF Spec, CloseNeverNil

\* No method ever misses its event, so what the methods make of a channel that they
\* would have to read again does not matter.
THEOREM NothingIsReread == Spec => [](\A c \in Callers : reads[c] # "channel")
<1>1. IInv => \A c \in Callers : reads[c] # "channel"
  BY DEF IInv, ReadsInv
<1> QED
  BY <1>1, IInvAlways, PTL

-----------------------------------------------------------------------------
(* Calls come to an end *)

\* How many steps a call has left, besides waiting for the mutex: up to its transaction
\* and for what it reads afterwards.
StepsLeft(c) ==
    CASE pc[c] = "lock" -> IF reads[c] = "balance" THEN 4 ELSE 9
      [] pc[c] = "account" -> IF reads[c] = "balance" THEN 3 ELSE 8
      [] pc[c] = "simulate" -> IF reads[c] = "balance" THEN 2 ELSE 7
      [] pc[c] = "submit" -> 6
      [] pc[c] = "fetch" -> 5
      [] pc[c] = "assert" -> 1
      [] OTHER -> 0

\* No answer of the services, of the ledger or of another goroutine sends a call back:
\* each step of its goroutine brings it closer to its end, and nobody else moves it.
THEOREM CallsAdvance ==
    Spec => [][\A c \in Callers :
                  /\ Lock(c) \/ Runs(c) => StepsLeft(c)' < StepsLeft(c)
                  /\ pc[c] # "idle" => StepsLeft(c)' <= StepsLeft(c)]_vars
<1>1. ASSUME IInv, [Next]_vars, NEW d \in Callers
      PROVE  /\ Lock(d) \/ Runs(d) => StepsLeft(d)' < StepsLeft(d)
             /\ pc[d] # "idle" => StepsLeft(d)' <= StepsLeft(d)
  <2> USE DEF IInv, CallTypeOK
  <2>1. ASSUME NEW c \in Callers, Lock(c) \/ Runs(c)
        PROVE  /\ StepsLeft(c)' < StepsLeft(c)
               /\ c # d => pc'[d] = pc[d] /\ reads'[d] = reads[d]
    <3>1. CASE Return(c)
      BY <1>1, <2>1, <3>1, ReturnEnds DEF Return, End, Goto, StepsLeft
    <3>2. CASE ~Return(c)
      BY <1>1, <2>1, <3>2 DEF Lock, Runs, ReadAccount, SimulateRead, Simulate,
         SimulateRejected, SubmitApplied, SubmitRejected, SubmitOutdated,
         SubmitTimesOut, Fetch, ReadBalance, RequestFails, DecodeFails, FailUnlocked,
         End, Goto, StepsLeft, ReadsInv
    <3> QED
      BY <3>1, <3>2
  <2>2. ASSUME pc'[d] = pc[d], reads'[d] = reads[d]
        PROVE  StepsLeft(d)' <= StepsLeft(d)
    BY <1>1, <2>2 DEF StepsLeft
  <2>3. StepsLeft(d) \in Nat /\ StepsLeft(d)' \in Nat
    BY <1>1 DEF StepsLeft
  <2>4. ASSUME NEW c \in Callers, Call(c), pc[d] # "idle"
        PROVE  pc'[d] = pc[d] /\ reads'[d] = reads[d]
    BY <1>1, <2>4 DEF Call, Goto
  <2>5. ASSUME LateIsIncluded \/ PeerActs \/ UNCHANGED vars
        PROVE  pc'[d] = pc[d] /\ reads'[d] = reads[d]
    BY <2>5 DEF LateIsIncluded, PeerActs, vars, callVars
  <2> QED
    BY <1>1, <2>1, <2>2, <2>3, <2>4, <2>5 DEF Next
<1>2. IInv /\ [Next]_vars
        => [\A c \in Callers :
              /\ Lock(c) \/ Runs(c) => StepsLeft(c)' < StepsLeft(c)
              /\ pc[c] # "idle" => StepsLeft(c)' <= StepsLeft(c)]_vars
  BY <1>1
<1> QED
  BY <1>2, IInvAlways, PTL DEF Spec
=============================================================================
