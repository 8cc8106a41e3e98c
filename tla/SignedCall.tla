----------------------------- MODULE SignedCall -----------------------------
(***************************************************************************)
(* One ContractBackend (client/contractbackend.go, client/client.go and    *)
(* client/transaction.go) that several goroutines of its party use at the  *)
(* same time: the Funder or Adjudicator, the watcher and a subscription.   *)
(* A call takes the backend's mutex, reads the account's sequence number,  *)
(* simulates the transaction, signs and submits it, fetches and decodes    *)
(* its result, releases the mutex, and compares the events with what the   *)
(* method expects.  Between these steps the peer acts on the contract.     *)
(* After its transaction a method may still read: Withdraw the balances    *)
(* that it logs (two reads, modelled as one), and a method that misses its *)
(* event the channel.  Such a read takes the mutex again.                  *)
(*                                                                         *)
(* A read ends with the simulation.  Any request to Horizon or to the      *)
(* Soroban RPC server can fail, and an event may be one that cannot be     *)
(* decoded; faults bounds how often.  When Horizon does not answer a       *)
(* submission in time the call is an error, but the transaction has no     *)
(* time bound: until the account's next transaction is included the ledger *)
(* may still include this one.                                             *)
(***************************************************************************)
EXTENDS ContractCalls, Sequences

CONSTANTS
    Me,         \* the party whose backend this is
    Callers,    \* goroutines that use it
    Methods     \* the methods they call

ASSUME MeAssumption == Me \in Party

VARIABLES
    mutex,      \* the goroutine that holds cbMutex, or {}
    pc,         \* pc[c]: the next step of c's call
    call,       \* call[c]: the method, and the version for dispute and close
    fresh,      \* fresh[c]: whether the account that c has read is "current"; see below
    reads,      \* reads[c]: what c's call reads after its transaction
    late,       \* transactions that may still be included, with the call they are from
    topics,     \* topics[c]: the events of c's transaction
    served,     \* served[c]: how often the contract has carried out c's call
    outcome     \* outcome[c]: what c's last call has returned

callVars == <<mutex, pc, call, fresh, reads, late, topics, served, outcome>>
vars == <<contractVars, faults, callVars>>

-----------------------------------------------------------------------------
(* The contract, by method *)

Accepts(m) ==
    \/ m.name = "get_channel" /\ chan.open
    \/ m.name = "open" /\ CanOpen
    \/ m.name = "fund" /\ CanFund(Me)
    \/ m.name = "abort_funding" /\ CanAbort(Me)
    \/ m.name = "dispute" /\ CanDispute(m.version)
    \/ m.name = "close" /\ CanClose(m.version)
    \/ m.name = "force_close" /\ CanForceClose
    \/ m.name = "withdraw" /\ CanWithdraw(Me, Me, FALSE)

Applies(m) ==
    \/ m.name = "open" /\ TxOpen
    \/ m.name = "fund" /\ TxFund(Me)
    \/ m.name = "abort_funding" /\ TxAbort(Me)
    \/ m.name = "dispute" /\ TxDispute(m.version)
    \/ m.name = "close" /\ TxClose(m.version)
    \/ m.name = "force_close" /\ TxForceClose
    \/ m.name = "withdraw" /\ TxWithdraw(Me)

\* The topics of a transaction's events, in the order of emission.
Emitted(m) ==
    CASE m.name = "open" -> <<"open">>
      [] m.name = "fund" -> IF \A p \in Party : chan'.funded[p]
                            THEN <<"transfer", "fund", "fund_c">>
                            ELSE <<"transfer", "fund">>
      [] m.name = "abort_funding" -> <<"transfer">>
      [] m.name = "dispute" -> <<"dispute">>
      [] m.name = "close" -> <<"closed">>
      [] m.name = "force_close" -> <<"f_closed">>
      [] m.name = "withdraw" -> IF chan'.open
                                THEN <<"transfer", "withdraw">>
                                ELSE <<"transfer", "withdraw", "pay_c">>

-----------------------------------------------------------------------------
(* Events *)

\* DecodeEventsPerun: transfers are skipped, and so are the known topics that its
\* switch has no case for.  An event keeps its place among the events.
Decodes(topic) == topic \in {"open", "fund", "closed", "pay_c", "dispute"}
DecodeEventsPerun(ts) ==
    {[at |-> i, topic |-> ts[i]] : i \in {j \in DOMAIN ts : Decodes(ts[j])}}

IsFirst(e, evs) == \A d \in evs : e.at <= d.at

\* Mutant of Asserts: no event is a missing event.
AssertsOne(evs, expected) == \E e \in evs : IsFirst(e, evs) /\ e.topic \in expected

\* The Assert functions but AssertOpenEvent look at the first event only, and
\* have no objection when there is none.
Asserts(evs, expected) == \A e \in evs : IsFirst(e, evs) => e.topic \in expected

\* Mutant of AssertCloseEvent: it expects the wrong topic.
AssertCloseEventForced(evs) == Asserts(evs, {"f_closed"})

AssertOpenEvent(evs) == \E e \in evs : e.topic = "open"
AssertFundedEvent(evs) == Asserts(evs, {"fund"})
AssertCloseEvent(evs) == Asserts(evs, {"closed"})
AssertForceCloseEvent(evs) == Asserts(evs, {"f_closed"})
AssertDisputeEvent(evs) == Asserts(evs, {"dispute"})
AssertWithdrawEvent(evs) == Asserts(evs, {"withdraw", "pay_c"})

\* The methods that read the channel again when they miss their event.
MissesEvent(m, evs) ==
    \/ m.name = "fund" /\ ~AssertFundedEvent(evs)
    \/ m.name = "close" /\ ~AssertCloseEvent(evs)
    \/ m.name = "force_close" /\ ~AssertForceCloseEvent(evs)
    \/ m.name = "dispute" /\ ~AssertDisputeEvent(evs)
    \/ m.name = "withdraw" /\ ~AssertWithdrawEvent(evs)

\* What they make of their event: Close returns ErrNoCloseEvent.
ReturnsNil(m, evs) ==
    \/ m.name \in {"get_channel", "abort_funding"}
    \/ m.name = "open" /\ AssertOpenEvent(evs)
    \/ m.name \in {"fund", "force_close", "dispute", "withdraw"}

\* What they make of the channel that they have read again.
Confirms(m) ==
    \/ m.name = "fund" /\ \E p \in Party : chan.funded[p]
    \/ m.name = "close" /\ chan.closed
    \/ m.name = "force_close" /\ chan.disputed /\ ~chan.closed
    \/ m.name = "dispute"
    \/ m.name = "withdraw" /\ chan.withdrawn[Me]

-----------------------------------------------------------------------------
(* The steps of a call *)

NoCall == [name |-> "get_channel", version |-> 0]

Goto(c, label) == pc' = [pc EXCEPT ![c] = label]

\* The call ends: its local variables are gone.
End(c, value) ==
    /\ Goto(c, "idle")
    /\ fresh' = [fresh EXCEPT ![c] = "stale"]
    /\ reads' = [reads EXCEPT ![c] = "nothing"]
    /\ outcome' = [outcome EXCEPT ![c] = value]
    /\ call' = [call EXCEPT ![c] = NoCall]
    /\ topics' = [topics EXCEPT ![c] = <<>>]

\* Mutant of FailUnlocked: an error leaves the mutex locked.
FailLocked(c) == End(c, "error") /\ UNCHANGED mutex

\* The deferred Unlock, and the return of an error.
FailUnlocked(c) == End(c, "error") /\ mutex' = {}

Call(c) ==
    /\ pc[c] = "idle"
    /\ \E m \in [name : Methods, version : Versions] :
          /\ m.version # 0 => m.name \in {"dispute", "close"}
          /\ call' = [call EXCEPT ![c] = m]
    /\ Goto(c, "lock")
    /\ outcome' = [outcome EXCEPT ![c] = "running"]
    /\ served' = [served EXCEPT ![c] = 0]
    /\ late' = {[t EXCEPT !.by = @ \ {c}] : t \in late}
    /\ UNCHANGED <<contractVars, faults, mutex, fresh, reads, topics>>

\* Mutant of Lock: the call does not wait for the mutex.
LockAlways(c) ==
    /\ pc[c] = "lock"
    /\ mutex' = {c}
    /\ Goto(c, "account")
    /\ UNCHANGED <<contractVars, faults, call, fresh, reads, late, topics, served,
                   outcome>>

Lock(c) ==
    /\ pc[c] = "lock"
    /\ mutex = {}
    /\ mutex' = {c}
    /\ Goto(c, "account")
    /\ UNCHANGED <<contractVars, faults, call, fresh, reads, late, topics, served,
                   outcome>>

ReadAccount(c) ==
    /\ pc[c] = "account"
    /\ fresh' = [fresh EXCEPT ![c] = "current"]
    /\ Goto(c, "simulate")
    /\ NoFault
    /\ UNCHANGED <<contractVars, mutex, call, reads, late, topics, served, outcome>>

\* What a call simulates, unless that is the balance of a token.
Sent(c) == IF reads[c] = "channel" THEN NoCall ELSE call[c]

\* A read returns the channel that the simulation has found; its transaction, and
\* with it the sequence number, is not used.
SimulateRead(c) ==
    /\ pc[c] = "simulate"
    /\ reads[c] # "balance"
    /\ Sent(c).name = "get_channel"
    /\ Accepts(Sent(c))
    /\ mutex' = {}
    /\ IF reads[c] = "channel"
       THEN /\ End(c, IF Confirms(call[c]) THEN "nil" ELSE "error")
            /\ UNCHANGED served
       ELSE /\ Goto(c, "assert")
            /\ fresh' = [fresh EXCEPT ![c] = "stale"]
            /\ served' = [served EXCEPT ![c] = @ + 1]
            /\ UNCHANGED <<call, reads, topics, outcome>>
    /\ NoFault
    /\ UNCHANGED <<contractVars, late>>

Simulate(c) ==
    /\ pc[c] = "simulate"
    /\ reads[c] = "nothing"
    /\ call[c].name # "get_channel"
    /\ Accepts(call[c])
    /\ Goto(c, "submit")
    /\ NoFault
    /\ UNCHANGED <<contractVars, mutex, call, fresh, reads, late, topics, served,
                   outcome>>

SimulateRejected(c) ==
    /\ pc[c] = "simulate"
    /\ reads[c] # "balance"
    /\ ~Accepts(Sent(c))
    /\ FailUnlocked(c)
    /\ NoFault
    /\ UNCHANGED <<contractVars, late, served>>

\* A transaction on the ledger, applied or not, uses up the sequence number, so that
\* one that Horizon has given up on can no longer be included.
Included ==
    /\ fresh' = [c \in Callers |-> "stale"]
    /\ late' = {}

\* The ledger applies the transaction if its sequence number is the next one and
\* the contract still accepts the call.
SubmitApplied(c) ==
    /\ pc[c] = "submit"
    /\ fresh[c] = "current"
    /\ Included
    /\ Accepts(call[c]) /\ Applies(call[c])
    /\ topics' = [topics EXCEPT ![c] = Emitted(call[c])]
    /\ served' = [served EXCEPT ![c] = @ + 1]
    /\ Goto(c, "fetch")
    /\ NoFault
    /\ UNCHANGED <<mutex, call, reads, outcome>>

\* The state has changed since the simulation: the transaction fails.
SubmitRejected(c) ==
    /\ pc[c] = "submit"
    /\ fresh[c] = "current"
    /\ Included
    /\ ~Accepts(call[c])
    /\ FailUnlocked(c)
    /\ NoFault
    /\ UNCHANGED <<contractVars, served>>

\* A transaction with another sequence number than the next one is refused.
SubmitOutdated(c) ==
    /\ pc[c] = "submit"
    /\ fresh[c] # "current"
    /\ FailUnlocked(c)
    /\ NoFault
    /\ UNCHANGED <<contractVars, late, served>>

\* Horizon does not answer in time: an error, whatever becomes of the transaction.
SubmitTimesOut(c) ==
    /\ pc[c] = "submit"
    /\ fresh[c] = "current"
    /\ late' = late \cup {[by |-> {c}, call |-> call[c]]}
    /\ FailUnlocked(c)
    /\ Fault
    /\ UNCHANGED <<contractVars, served>>

\* The ledger includes one all the same, although its caller may have gone on to
\* another call; the others have the same sequence number.  An account that has been
\* read before is "overtaken".
LateIsIncluded ==
    /\ \E t \in late :
          IF Accepts(t.call)
          THEN /\ Applies(t.call)
               /\ served' = [c \in Callers |-> served[c] + (IF c \in t.by THEN 1 ELSE 0)]
          ELSE UNCHANGED <<contractVars, served>>
    /\ late' = {}
    /\ fresh' = [c \in Callers |-> IF fresh[c] = "current" THEN "overtaken" ELSE fresh[c]]
    /\ UNCHANGED <<faults, mutex, pc, call, reads, topics, outcome>>

\* Withdraw goes on to read balances if there is a token on this ledger.
Fetch(c) ==
    /\ pc[c] = "fetch"
    /\ mutex' = {}
    /\ IF call[c].name = "withdraw" /\ Stellar # {}
       THEN Goto(c, "lock") /\ reads' = [reads EXCEPT ![c] = "balance"]
       ELSE Goto(c, "assert") /\ UNCHANGED reads
    /\ NoFault
    /\ UNCHANGED <<contractVars, call, fresh, late, topics, served, outcome>>

\* A balance, or the error of reading it, is only logged.
ReadBalance(c) ==
    /\ reads[c] = "balance"
    /\ \/ pc[c] = "simulate" /\ NoFault
       \/ pc[c] \in {"account", "simulate"} /\ Fault
    /\ mutex' = {}
    /\ Goto(c, "assert")
    /\ fresh' = [fresh EXCEPT ![c] = "stale"]
    /\ reads' = [reads EXCEPT ![c] = "nothing"]
    /\ UNCHANGED <<contractVars, call, late, topics, served, outcome>>

\* Mutant of RequestFails: without a result the transaction is sent again.
RequestRepeated(c) ==
    /\ pc[c] = "fetch"
    /\ Goto(c, "account")
    /\ Fault
    /\ UNCHANGED <<contractVars, mutex, call, fresh, reads, late, topics, served,
                   outcome>>

\* A request fails: of the account, the simulation, the submission or the result.
RequestFails(c) ==
    /\ pc[c] \in {"account", "simulate", "submit", "fetch"}
    /\ reads[c] # "balance"
    /\ FailUnlocked(c)
    /\ Fault
    /\ UNCHANGED <<contractVars, late, served>>

\* An event that is not of this contract, or whose channel cannot be decoded.
DecodeFails(c) ==
    /\ pc[c] = "assert"
    /\ call[c].name # "get_channel"
    /\ End(c, "error")
    /\ Fault
    /\ UNCHANGED <<contractVars, mutex, late, served>>

\* Decoding and the Assert function run without the mutex.
Return(c) ==
    /\ pc[c] = "assert"
    /\ LET evs == DecodeEventsPerun(topics[c]) IN
       IF MissesEvent(call[c], evs)
       THEN /\ Goto(c, "lock")
            /\ reads' = [reads EXCEPT ![c] = "channel"]
            /\ UNCHANGED <<call, fresh, topics, outcome>>
       ELSE End(c, IF ReturnsNil(call[c], evs) THEN "nil" ELSE "error")
    /\ NoFault
    /\ UNCHANGED <<contractVars, mutex, late, served>>

\* The peer's transactions, and time.
PeerActs ==
    /\ LET p == Peer(Me) IN
       \/ CanOpen /\ TxOpen
       \/ CanFund(p) /\ TxFund(p)
       \/ CanAbort(p) /\ TxAbort(p)
       \/ \E v \in Versions : CanDispute(v) /\ TxDispute(v)
       \/ \E v \in Versions : CanClose(v) /\ TxClose(v)
       \/ CanForceClose /\ TxForceClose
       \/ CanWithdraw(p, p, FALSE) /\ TxWithdraw(p)
       \/ Elapse
    /\ UNCHANGED <<faults, callVars>>

-----------------------------------------------------------------------------
Init ==
    /\ ContractInit
    /\ faults = 0
    /\ mutex = {}
    /\ pc = [c \in Callers |-> "idle"]
    /\ call = [c \in Callers |-> NoCall]
    /\ fresh = [c \in Callers |-> "stale"]
    /\ reads = [c \in Callers |-> "nothing"]
    /\ late = {}
    /\ topics = [c \in Callers |-> <<>>]
    /\ served = [c \in Callers |-> 0]
    /\ outcome = [c \in Callers |-> "idle"]

Runs(c) ==
    \/ ReadAccount(c)
    \/ SimulateRead(c) \/ Simulate(c) \/ SimulateRejected(c)
    \/ SubmitApplied(c) \/ SubmitRejected(c) \/ SubmitOutdated(c) \/ SubmitTimesOut(c)
    \/ Fetch(c) \/ ReadBalance(c) \/ RequestFails(c)
    \/ DecodeFails(c) \/ Return(c)

Next ==
    \/ \E c \in Callers : Call(c) \/ Lock(c) \/ Runs(c)
    \/ LateIsIncluded
    \/ PeerActs

Spec == Init /\ [][Next]_vars

\* Go's mutex does not starve a goroutine, and a request ends.
FairSpec == Spec /\ \A c \in Callers : SF_vars(Lock(c)) /\ WF_vars(Runs(c))

-----------------------------------------------------------------------------
(* Properties *)

\* Every variable has its type.
TypeOK ==
    /\ ContractTypeOK
    /\ faults \in 0..MaxFaults
    /\ mutex \in {{}} \cup {{c} : c \in Callers}
    /\ pc \in [Callers -> {"idle", "lock", "account", "simulate", "submit",
                           "fetch", "assert"}]
    /\ \A c \in Callers : call[c].name \in Methods \cup {"get_channel"}
                          /\ call[c].version \in Versions
    /\ fresh \in [Callers -> {"current", "overtaken", "stale"}]
    /\ reads \in [Callers -> {"nothing", "balance", "channel"}]
    /\ \A t \in late : /\ t.by \subseteq Callers
                      /\ t.call.name \in Methods \cup {"get_channel"}
                      /\ t.call.version \in Versions
    /\ served \in [Callers -> {0, 1}]
    /\ outcome \in [Callers -> {"idle", "running", "nil", "error"}]

\* The goroutines of one backend do not spoil each other's transactions: whoever
\* submits holds the mutex, and has the account's current sequence number, unless
\* a transaction that Horizon had given up on was included since it was read.
OwnSequence ==
    \A c \in Callers :
        pc[c] = "submit" => mutex = {c} /\ fresh[c] # "stale"

\* Every call keeps the promise of OneCall: the contract carries it out at most
\* once, if at all, and nil is returned only after that.
Promise(c) == INSTANCE OneCall WITH served <- served[c], outcome <- outcome[c]
KeepsPromise ==
    /\ \A c \in Callers : Promise(c)!Init
    /\ [][\A c \in Callers : [Promise(c)!Next]_<<served[c], outcome[c]>>]_vars

\* A call that the contract has carried out, by any method but Close, ends in an error
\* only because a request or the decoding fails: no method misses its own event, and
\* nothing that it still reads afterwards is held against it.
SuccessIsTold ==
    [][\A c \in Callers :
          /\ outcome[c] = "running"
          /\ served[c] = 1
          /\ call[c].name # "close"
          /\ outcome'[c] = "error"
          => faults' # faults]_vars

\* Close never returns nil, although the contract has closed the channel: the error
\* that Adjudicator.Withdraw meets with another read of the channel is its only result.
CloseNeverNil ==
    [][\A c \in Callers : call[c].name = "close" => outcome'[c] # "nil"]_vars

\* No caller waits for the mutex for ever.
CallsReturn == \A c \in Callers : pc[c] = "lock" ~> pc[c] = "idle"
=============================================================================
