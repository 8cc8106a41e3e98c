----------------------- MODULE AdjSubscription_proofs -----------------------
(***************************************************************************)
(* What a consumer can rely on in the events of a subscription, for every  *)
(* history, every capacity of the Go channel, and any number of failed     *)
(* polls.                                                                  *)
(***************************************************************************)
EXTENDS AdjSubscription, PerunContract_proofs

\* The events that are ever sent.
Sent == {Event("registered"), Event("concluded")}

\* The channel starts funded and can only be deleted, which happens as soon as
\* both parties have withdrawn.
ChanInv ==
    IF chan.open THEN FullyFunded /\ ~\A p \in Party : chan.withdrawn[p]
                 ELSE chan = Absent

\* What the goroutine and the consumer hold; an event is pending exactly while it
\* is being sent.
SubTypeOK ==
    /\ faults \in 0..MaxFaults
    /\ run \in {"first", "select", "send", "stuck", "done"}
    /\ chanControl \in Controls
    /\ pending \in IF run = "send" THEN Sent ELSE {NoEvent}
    /\ events \in Seq(Sent)
    /\ Len(events) <= BufferSize
    /\ got \in Sent \cup {NoEvent, Event("nil")}
    /\ {subError, err, cancelled, closer, waiting} \subseteq BOOLEAN

\* Concluded events come last, among those in the Go channel and around it.
OrderInv ==
    /\ \A i, j \in 1..Len(events) :
          i < j /\ events[i] = Event("concluded") => events[j] = Event("concluded")
    /\ got = Event("concluded") =>
          \A i \in 1..Len(events) : events[i] = Event("concluded")
    /\ pending = Event("registered") =>
          /\ got # Event("concluded")
          /\ \A i \in 1..Len(events) : events[i] # Event("concluded")

IInv == ContractTypeOK /\ ChanInv /\ SubTypeOK /\ EventsAreTrue /\ OrderInv

\* The records of events are told apart by their kind.
LEMMA EventKinds ==
    /\ \A k : Event(k).kind = k /\ Event(k).version = 0
    /\ Event("registered") # Event("concluded")
    /\ NoEvent \notin Sent /\ Event("nil") \notin Sent
    /\ \A e \in Sent : e.kind \in {"registered", "concluded"}
    /\ \A e \in Sent \cup {NoEvent, Event("nil")} :
          /\ e.kind = "concluded" => e = Event("concluded")
          /\ e.kind = "registered" => e = Event("registered")
          /\ e \in Events
<1>1. \A k : Event(k).kind = k /\ Event(k).version = 0
  BY DEF Event
<1> QED
  BY <1>1 DEF Sent, NoEvent, Event, Events

LEMMA InitInv == Init => IInv
<1> SUFFICES ASSUME Init PROVE IInv
  OBVIOUS
<1> USE DEF Init
<1>1. PICK d \in BOOLEAN :
         chan = [Absent EXCEPT !.open = TRUE, !.disputed = d,
                               !.funded = [p \in Party |-> TRUE]]
  OBVIOUS
<1>2. 0 \in Versions /\ \A p \in Party, a \in Asset : Share(0, p, a) \in Int
  BY EndVersions, ShareNat
<1>3. chan \in ChanType /\ chan.open /\ FullyFunded /\ ~chan.withdrawn[0]
  BY <1>1, <1>2 DEF ChanType, Absent, Neither, FullyFunded, Party
<1>4. ContractTypeOK
  <2>1. wallet \in [Party -> [Asset -> Int]]
    BY EndowmentAssumption
  <2>2. held \in [Asset -> Int]
    BY <1>2 DEF Party
  <2> QED
    BY <1>3, <2>1, <2>2 DEF ContractTypeOK, ChanType
<1>5. ChanInv
  BY <1>3 DEF ChanInv, Party
<1>6. SubTypeOK
  <2>1. chanControl \in Controls
    BY DEF NoControl, Control, Absent, Neither, Controls
  <2>2. events \in Seq(Sent) /\ Len(events) <= BufferSize
    BY BufferSizeAssumption
  <2>3. faults \in 0..MaxFaults
    BY MaxFaultsAssumption
  <2> QED
    BY <2>1, <2>2, <2>3 DEF SubTypeOK
<1>7. EventsAreTrue
  BY EventKinds DEF EventsAreTrue, Told, NoEvent
<1>8. OrderInv
  BY EventKinds DEF OrderInv, NoEvent
<1> QED
  BY <1>4, <1>5, <1>6, <1>7, <1>8 DEF IInv

-----------------------------------------------------------------------------
(* The parties *)

\* A closing, a dispute and the end of a channel are for good.
LEMMA SettleStep ==
    ASSUME IInv, Settle \/ Refute
    PROVE  /\ ContractTypeOK' /\ ChanInv' /\ hist' = hist
           /\ UNCHANGED <<faults, subVars, userVars>>
           /\ chan.closed \/ ~chan.open => chan'.closed \/ ~chan'.open
           /\ chan.disputed \/ ~chan.open => chan'.disputed \/ ~chan'.open
<1> DEFINE Goal ==
      /\ ContractTypeOK' /\ ChanInv' /\ hist' = hist
      /\ chan.closed \/ ~chan.open => chan'.closed \/ ~chan'.open
      /\ chan.disputed \/ ~chan.open => chan'.disputed \/ ~chan'.open
<1>0. ContractTypeOK /\ ChanInv /\ chan \in ChanType
  BY DEF IInv, ContractTypeOK, ChanType
<1>1. ASSUME NEW v \in Versions, CanDispute(v), TxDispute(v) PROVE Goal
  BY <1>0, <1>1, DisputeType DEF CanDispute, TxDispute, ChanInv, FullyFunded, ChanType
<1>2. ASSUME Elapse PROVE Goal
  BY <1>0, <1>2, ElapseType DEF Elapse, ChanInv, FullyFunded, ChanType, Absent
<1>3. ASSUME NEW v \in Versions, CanClose(v), TxClose(v) PROVE Goal
  BY <1>0, <1>3, CloseType DEF CanClose, TxClose, ChanInv, FullyFunded, ChanType
<1>4. ASSUME CanForceClose, TxForceClose PROVE Goal
  BY <1>0, <1>4, ForceCloseType DEF CanForceClose, TxForceClose, ChanInv,
     FullyFunded, ChanType
<1>5. ASSUME NEW p \in Party, CanWithdraw(p, p, FALSE), TxWithdraw(p) PROVE Goal
  <2>1. chan.open /\ chan.closed /\ ContractTypeOK' /\ hist' = hist
    BY <1>0, <1>5, WithdrawType DEF CanWithdraw, TxWithdraw
  <2>2. CASE chan' = Absent
    BY <2>1, <2>2 DEF ChanInv, Absent
  <2>3. CASE chan' # Absent
    <3> DEFINE done == [q \in Party |-> \/ q = p
                                        \/ chan.withdrawn[q]
                                        \/ OwesNothing(chan.version, q)]
    <3>1. chan' = [chan EXCEPT !.withdrawn = done] /\ ~\A q \in Party : done[q]
      BY <1>5, <2>3 DEF TxWithdraw
    <3> QED
      BY <1>0, <2>1, <3>1 DEF ChanInv, FullyFunded, ChanType
  <2> QED
    BY <2>2, <2>3
<1>6. hist.last \in Versions
  BY <1>0, EndVersions DEF ContractTypeOK
<1> QED
  BY <1>1, <1>2, <1>3, <1>4, <1>5, <1>6 DEF Settle, Refute

-----------------------------------------------------------------------------
(* The goroutine *)

\* What a comparison can find: the channel is never revoked while it is open, and
\* both withdrawn flags are never set in an open channel.
LEMMA Differences ==
    ASSUME IInv
    PROVE  /\ chan.open =>
                DifferencesInControls(chanControl, Control(chan))
                    \in {"error", "concluded", "registered", "none"}
           /\ DifferencesInControls(chanControl, Control(chan)) = "concluded"
                => chan.closed
           /\ DifferencesInControls(chanControl, Control(chan)) = "registered"
                => chan.disputed /\ ~chan.closed
           /\ DifferencesInControls(chanControl, NoControl) \in {"error", "none"}
           /\ Control(chan) \in Controls /\ NoControl \in Controls
<1>1. chan \in ChanType /\ chanControl \in Controls
  BY DEF IInv, ContractTypeOK, ChanType, SubTypeOK
<1>2. /\ Control(chan) \in Controls
      /\ Control(chan).closed = chan.closed
      /\ Control(chan).disputed = chan.disputed
      /\ Control(chan).withdrawn = chan.withdrawn
  BY <1>1 DEF Control, Controls, ChanType
<1>3. /\ NoControl \in Controls /\ ~NoControl.closed /\ ~NoControl.disputed
      /\ NoControl.withdrawn = Neither /\ NoControl.funded = Neither
      /\ ~\A p \in Party : NoControl.withdrawn[p]
  BY DEF NoControl, Control, Absent, Neither, Controls, Party
<1>4. chan.open => ~\A p \in Party : Control(chan).withdrawn[p]
  BY <1>2 DEF IInv, ChanInv
<1>5. /\ DifferencesInControls(chanControl, Control(chan)) = "concluded" => chan.closed
      /\ DifferencesInControls(chanControl, Control(chan)) = "registered"
           => chan.disputed /\ ~chan.closed
  BY <1>1, <1>2 DEF DifferencesInControls, Controls
<1>6. chan.open => DifferencesInControls(chanControl, Control(chan))
                     \in {"error", "concluded", "registered", "none"}
  BY <1>4 DEF DifferencesInControls
<1>7. DifferencesInControls(chanControl, NoControl) \in {"error", "none"}
  BY <1>1, <1>3 DEF DifferencesInControls, Controls
<1> QED
  BY <1>2, <1>3, <1>5, <1>6, <1>7

\* Adding an event that is true keeps the order: a registered event is built only
\* when the channel has not been closed, and so before any concluded event.
LEMMA PollStep ==
    ASSUME IInv, Poll
    PROVE  SubTypeOK' /\ EventsAreTrue' /\ OrderInv'
<1> DEFINE diff == DifferencesInControls(chanControl, Control(chan))
<1>0. /\ run = "select" /\ chan.open /\ pending = NoEvent
      /\ UNCHANGED <<contractVars, faults, events, err, userVars>>
      /\ subError' = (diff = "error")
  BY DEF Poll, Polls, NoFault, IInv, SubTypeOK
<1>1. diff \in {"error", "concluded", "registered", "none"}
  BY <1>0, Differences
<1>2. CASE diff \in {"none", "error"}
  <2>1. run' = "select" /\ chanControl' = Control(chan) /\ pending' = pending
    BY <1>2 DEF Poll, Compare
  <2> QED
    BY <1>0, <2>1, Differences DEF contractVars, userVars, IInv, SubTypeOK,
       EventsAreTrue, Told, OrderInv
<1>3. CASE diff \in {"concluded", "registered"}
  <2>1. run' = "send" /\ chanControl' = chanControl /\ pending' = Event(diff)
    BY <1>3 DEF Poll, Compare
  <2>2. pending' \in Sent
    BY <1>3, <2>1 DEF Sent
  <2>3. SubTypeOK'
    BY <1>0, <2>1, <2>2 DEF userVars, IInv, SubTypeOK
  <2>4. EventsAreTrue'
    BY <1>0, <1>3, <2>1, Differences, EventKinds DEF contractVars, userVars, IInv,
       EventsAreTrue, Told
  <2>5. CASE diff = "concluded"
    <3>1. OrderInv'
      BY <1>0, <2>1, <2>5, EventKinds DEF userVars, IInv, OrderInv
    <3> QED
      BY <2>3, <2>4, <3>1
  <2>6. CASE diff = "registered"
    <3>1. \A e \in Told : e # Event("concluded")
      BY <1>0, <2>6, Differences, EventKinds DEF IInv, EventsAreTrue
    <3>2. OrderInv'
      BY <1>0, <3>1 DEF userVars, IInv, OrderInv, Told
    <3> QED
      BY <2>3, <2>4, <3>2
  <2> QED
    BY <1>3, <2>5, <2>6
<1> QED
  BY <1>1, <1>2, <1>3

LEMMA PollFailsStep ==
    ASSUME IInv, PollFails
    PROVE  /\ SubTypeOK' /\ EventsAreTrue' /\ OrderInv'
           /\ UNCHANGED contractVars
<1>1. /\ pending' = pending
      /\ run' \in {"select", "stuck"} /\ chanControl' \in Controls
      /\ pending = NoEvent
  BY Differences DEF PollFails, Polls, Compare, IInv, SubTypeOK
<1>2. /\ UNCHANGED <<contractVars, events, err, userVars>>
      /\ subError' = TRUE
      /\ faults' \in 0..MaxFaults
  BY MaxFaultsAssumption DEF PollFails, CallFails, Fault, NoFault, IInv, SubTypeOK
<1> QED
  BY <1>1, <1>2 DEF contractVars, userVars, IInv, SubTypeOK, EventsAreTrue, Told,
     OrderInv

\* The pending event goes to the end of the Go channel.
LEMMA SendStep ==
    ASSUME IInv, Send
    PROVE  SubTypeOK' /\ EventsAreTrue' /\ OrderInv'
<1>0. /\ Len(events) < BufferSize /\ pending \in Sent
      /\ events \in Seq(Sent) /\ Len(events) \in Nat /\ BufferSize \in Nat
      /\ events' = Append(events, pending) /\ pending' = NoEvent
      /\ run' = "select"
      /\ UNCHANGED <<contractVars, faults, chanControl, subError, err, userVars>>
  <2>1. pending \in Sent /\ events \in Seq(Sent)
    BY DEF Send, IInv, SubTypeOK
  <2>2. GetType(pending) # "EventTypeWithdrawn"
    <3>1. pending.kind \in {"registered", "concluded"}
      BY <2>1, EventKinds
    <3> QED
      BY <3>1 DEF GetType
  <2>3. Len(events) \in Nat /\ BufferSize \in Nat
    BY <2>1, BufferSizeAssumption
  <2> QED
    BY <2>1, <2>2, <2>3 DEF Send
<1>1. /\ Len(events') = Len(events) + 1
      /\ events' \in Seq(Sent)
      /\ events'[Len(events) + 1] = pending
      /\ \A i \in 1..Len(events) : events'[i] = events[i]
  BY <1>0
<1>2. SubTypeOK'
  BY <1>0, <1>1 DEF userVars, IInv, SubTypeOK
<1>3. EventsAreTrue'
  <2>1. \A e \in Told' : e \in Told \cup {NoEvent}
    BY <1>0, <1>1 DEF Told, userVars
  <2> QED
    BY <1>0, <2>1, EventKinds DEF contractVars, IInv, EventsAreTrue, NoEvent
<1>4. OrderInv'
  <2>1. pending' # Event("registered")
    BY <1>0, EventKinds DEF NoEvent
  <2>2. got' = got
    BY <1>0 DEF userVars
  <2>3. ASSUME NEW i \in 1..Len(events'), NEW j \in 1..Len(events'), i < j,
               events'[i] = Event("concluded")
        PROVE  events'[j] = Event("concluded")
    BY <1>0, <1>1, <2>3 DEF IInv, OrderInv, Sent
  <2>4. ASSUME got = Event("concluded"), NEW i \in 1..Len(events')
        PROVE  events'[i] = Event("concluded")
    BY <1>0, <1>1, <2>4 DEF IInv, OrderInv, Sent
  <2> QED
    BY <2>1, <2>2, <2>3, <2>4 DEF OrderInv
<1> QED
  BY <1>2, <1>3, <1>4

\* Next takes the first event out of the Go channel.
LEMMA NextEventStep ==
    ASSUME IInv, NextEvent
    PROVE  SubTypeOK' /\ EventsAreTrue' /\ OrderInv'
<1>0. /\ events \in Seq(Sent) /\ events # <<>>
      /\ UNCHANGED <<contractVars, faults, run, chanControl, pending, subError, err,
                     cancelled, closer>>
      /\ events' = Tail(events) /\ waiting' = FALSE
  BY DEF NextEvent, IInv, SubTypeOK
<1>1. /\ Len(events) \in Nat \ {0} /\ Head(events) = events[1] /\ events[1] \in Sent
      /\ Len(events') = Len(events) - 1 /\ events' \in Seq(Sent)
      /\ \A i \in 1..Len(events') : events'[i] = events[i + 1]
  BY <1>0
<1>2. got' = events[1]
  BY <1>1, EventKinds DEF NextEvent
<1>3. SubTypeOK'
  <2>1. Len(events') <= BufferSize
    BY <1>1, BufferSizeAssumption DEF IInv, SubTypeOK
  <2> QED
    BY <1>0, <1>1, <1>2, <2>1 DEF IInv, SubTypeOK
<1>4. EventsAreTrue'
  <2>1. Told' \subseteq Told
    BY <1>0, <1>1, <1>2 DEF Told
  <2> QED
    BY <1>0, <2>1 DEF contractVars, IInv, EventsAreTrue
<1>5. OrderInv'
  <2>1. \A i \in 1..Len(events') : i \in 1..Len(events) /\ i + 1 \in 1..Len(events)
    BY <1>1
  <2>2. 1 \in 1..Len(events)
    BY <1>1
  <2> QED
    BY <1>0, <1>1, <1>2, <2>1, <2>2 DEF IInv, OrderInv
<1> QED
  BY <1>3, <1>4, <1>5

LEMMA IInvStep == IInv /\ [Next]_vars => IInv'
<1> SUFFICES ASSUME IInv, [Next]_vars PROVE IInv'
  OBVIOUS
<1> DEFINE Sub == SubTypeOK' /\ EventsAreTrue' /\ OrderInv'
<1>1. ASSUME UNCHANGED contractVars PROVE ContractTypeOK' /\ ChanInv'
  BY <1>1 DEF contractVars, IInv, ContractTypeOK, Versions, ChanInv, FullyFunded
<1>2. CASE Settle \/ Refute
  <2>1. Sub
    BY <1>2, SettleStep DEF subVars, userVars, IInv, SubTypeOK, EventsAreTrue, Told,
       OrderInv
  <2> QED
    BY <1>2, <2>1, SettleStep DEF IInv
<1>3. CASE Goroutine
  <2>1. CASE Poll \/ PollFails
    BY <1>1, <2>1, PollStep, PollFailsStep DEF Poll, IInv
  <2>2. CASE Send
    BY <1>1, <2>2, SendStep DEF Send, IInv
  <2>3. CASE FirstRead \/ FirstReadFails \/ TakeError \/ ContextDone
    <3>1. /\ UNCHANGED <<contractVars, pending, events, userVars>>
          /\ run # "send" /\ run' \in {"select", "done"}
          /\ chanControl' \in Controls
          /\ {subError', err'} \subseteq BOOLEAN
          /\ faults' \in 0..MaxFaults
      <4> USE DEF IInv, SubTypeOK
      <4>1. CASE FirstRead
        BY <4>1, Differences DEF FirstRead, NoFault
      <4>2. CASE FirstReadFails
        BY <4>2, MaxFaultsAssumption DEF FirstReadFails, CallFails, Fault, NoFault
      <4>3. CASE TakeError \/ ContextDone
        BY <4>3 DEF TakeError, ContextDone, Finish
      <4> QED
        BY <2>3, <4>1, <4>2, <4>3
    <3>2. Sub
      BY <3>1 DEF contractVars, userVars, IInv, SubTypeOK, EventsAreTrue, Told,
         OrderInv
    <3> QED
      BY <1>1, <3>1, <3>2 DEF IInv
  <2> QED
    BY <1>3, <2>1, <2>2, <2>3 DEF Goroutine
<1>4. CASE NextEvent
  BY <1>1, <1>4, NextEventStep DEF NextEvent, IInv
<1>5. CASE Next0 \/ NextNil \/ Close \/ Cancel \/ UNCHANGED vars
  <2>1. /\ UNCHANGED <<contractVars, faults, subVars>>
        /\ got' \in {got, Event("nil")}
        /\ {cancelled', closer', waiting'} \subseteq BOOLEAN
    BY <1>5 DEF Next0, NextNil, Close, Cancel, vars, userVars, IInv, SubTypeOK
  <2>2. SubTypeOK'
    BY <2>1 DEF subVars, IInv, SubTypeOK
  <2>3. EventsAreTrue' /\ OrderInv'
    BY <2>1, EventKinds DEF subVars, contractVars, IInv, EventsAreTrue, Told, OrderInv
  <2> QED
    BY <1>1, <2>1, <2>2, <2>3 DEF IInv
<1> QED
  BY <1>2, <1>3, <1>4, <1>5 DEF Next, NextCall

LEMMA IInvAlways == Spec => []IInv
<1> QED
  BY InitInv, IInvStep, PTL DEF Spec

-----------------------------------------------------------------------------
(* Theorems *)

\* The variables of the subscription keep their types, and the Go channel its
\* capacity.
THEOREM TypeCorrect == Spec => []TypeOK
<1>1. IInv => TypeOK
  <2> SUFFICES ASSUME IInv PROVE TypeOK
    OBVIOUS
  <2>1. {pending, got} \subseteq Events
    BY EventKinds DEF IInv, SubTypeOK
  <2>2. \A i \in 1..Len(events) : events[i] \in Events
    BY EventKinds DEF IInv, SubTypeOK
  <2> QED
    BY <2>1, <2>2 DEF IInv, SubTypeOK, TypeOK
<1> QED
  BY <1>1, IInvAlways, PTL

\* No event is a false alarm, however late it is taken.
THEOREM EventsTrue == Spec => []EventsAreTrue
<1>1. IInv => EventsAreTrue
  BY DEF IInv
<1> QED
  BY <1>1, IInvAlways, PTL

\* No event follows a concluded one but its repetition.
THEOREM ConcludedComesLast == Spec => []ConcludedIsLast
<1>1. IInv => ConcludedIsLast
  <2> SUFFICES ASSUME IInv PROVE ConcludedIsLast
    OBVIOUS
  <2> DEFINE rest == IF pending = NoEvent THEN <<>> ELSE <<pending>>
             order == <<got>> \o events \o rest
  <2>1. /\ events \in Seq(Events) /\ got \in Events /\ pending \in Events
        /\ \A i \in 1..Len(events) : events[i] \in Sent
    BY EventKinds DEF IInv, SubTypeOK
  <2>2. rest \in Seq(Events) /\ Len(rest) \in {0, 1}
        /\ (Len(rest) = 1 => pending # NoEvent /\ rest[1] = pending)
    BY <2>1
  <2>3. /\ Len(order) = 1 + Len(events) + Len(rest)
        /\ order[1] = got
        /\ \A i \in 1..Len(events) : order[i + 1] = events[i]
        /\ Len(rest) = 1 => order[Len(events) + 2] = pending
    BY <2>1, <2>2
  <2>4. \A e \in Sent : e.kind = "concluded" <=> e = Event("concluded")
    BY EventKinds
  <2> SUFFICES ASSUME NEW i \in 1..Len(order), NEW j \in 1..Len(order), i < j,
                      order[i].kind = "concluded"
               PROVE  order[j].kind = "concluded"
    BY DEF ConcludedIsLast
  <2> HIDE DEF order, rest
  <2>5. CASE j \in 2..Len(events) + 1
    <3>1. j - 1 \in 1..Len(events) /\ order[j] = events[j - 1]
      BY <2>1, <2>3, <2>5
    <3>2. CASE i = 1
      <4>1. got = Event("concluded")
        BY <2>3, <3>2, EventKinds DEF IInv, SubTypeOK
      <4> QED
        BY <2>1, <2>4, <3>1, <4>1 DEF IInv, OrderInv
    <3>3. CASE i # 1
      <4>1. i - 1 \in 1..Len(events) /\ order[i] = events[i - 1]
        BY <2>1, <2>3, <2>5, <3>3
      <4>2. events[i - 1] = Event("concluded")
        BY <2>1, <2>4, <4>1
      <4> QED
        BY <2>1, <2>4, <3>1, <4>1, <4>2 DEF IInv, OrderInv
    <3> QED
      BY <3>2, <3>3
  <2>6. CASE j \notin 2..Len(events) + 1
    <3>1. Len(rest) = 1 /\ j = Len(events) + 2
      <4>1. /\ Len(events) \in Nat /\ (Len(rest) = 0 \/ Len(rest) = 1)
            /\ Len(order) = 1 + Len(events) + Len(rest)
        BY <2>1, <2>2, <2>3
      <4>2. i \in Int /\ j \in Int /\ 1 <= i /\ i < j /\ j <= Len(order)
        BY <4>1
      <4>3. Len(events) + 2 <= j /\ j <= 1 + Len(events) + Len(rest)
        BY <2>6, <4>1, <4>2
      <4>4. Len(rest) = 1
        BY <4>1, <4>2, <4>3
      <4>5. Len(events) + 2 <= j /\ j <= Len(events) + 2
        BY <4>1, <4>2, <4>3, <4>4
      <4>6. j = Len(events) + 2
        BY <4>1, <4>2, <4>5
      <4> QED
        BY <4>4, <4>6
    <3>2. order[j] = pending /\ pending \in Sent
      BY <2>2, <2>3, <3>1 DEF IInv, SubTypeOK
    <3>3. CASE i = 1
      <4>1. got = Event("concluded")
        BY <2>3, <3>3, EventKinds DEF IInv, SubTypeOK
      <4> QED
        BY <2>4, <3>2, <4>1 DEF IInv, OrderInv, Sent
    <3>4. CASE i # 1
      <4>1. i - 1 \in 1..Len(events) /\ order[i] = events[i - 1]
        BY <2>1, <2>3, <3>1, <3>4
      <4>2. events[i - 1] = Event("concluded")
        BY <2>1, <2>4, <4>1
      <4> QED
        BY <2>4, <3>2, <4>1, <4>2 DEF IInv, OrderInv, Sent
    <3> QED
      BY <3>3, <3>4
  <2> QED
    BY <2>5, <2>6
<1> QED
  BY <1>1, IInvAlways, PTL

-----------------------------------------------------------------------------
(* A quiet subscription listens on, and tells *)

\* While the channel exists the stored control is an earlier state of the channel's.
BehindInv ==
    chan.open =>
        /\ chanControl.closed => chan.closed
        /\ chanControl.disputed => chan.disputed
        /\ ~Revoked(chanControl.withdrawn, chan.withdrawn)

\* An error has a failed poll or the end of the channel as its cause, and the goroutine
\* finishes because of an error or of its context.
EndsForAReason ==
    /\ run = "stuck" \/ subError \/ err => faults > 0 \/ ~chan.open
    /\ run = "done" => err \/ cancelled

\* A comparison with an existing channel finds its closing first, then its dispute.
LEMMA WhatIsNew ==
    ASSUME IInv, BehindInv, chan.open
    PROVE  DifferencesInControls(chanControl, Control(chan)) =
             IF chan.closed THEN "concluded"
             ELSE IF chan.disputed /\ ~chanControl.disputed THEN "registered"
             ELSE "none"
<1>1. chan \in ChanType /\ chanControl \in Controls
  BY DEF IInv, ContractTypeOK, ChanType, SubTypeOK
<1>2. /\ Control(chan).funded = chan.funded
      /\ Control(chan).closed = chan.closed
      /\ Control(chan).disputed = chan.disputed
      /\ Control(chan).withdrawn = chan.withdrawn
  BY DEF Control
<1>3. /\ ~Revoked(chanControl.funded, chan.funded)
      /\ ~\A p \in Party : chan.withdrawn[p]
  BY DEF IInv, ChanInv, FullyFunded, Revoked
<1>4. chan.closed \in BOOLEAN /\ chan.disputed \in BOOLEAN
      /\ chanControl.closed \in BOOLEAN /\ chanControl.disputed \in BOOLEAN
  BY <1>1 DEF ChanType, Controls
<1> QED
  BY <1>2, <1>3, <1>4 DEF DifferencesInControls, BehindInv

\* The contract goes forward while the channel exists.
LEMMA Forward ==
    ASSUME IInv, Settle \/ Refute, chan'.open
    PROVE  /\ chan.open
           /\ chan.closed => chan'.closed
           /\ chan.disputed => chan'.disputed
           /\ ~Revoked(chan.withdrawn, chan'.withdrawn)
<1> USE DEF Revoked, ChanType
<1>0. chan \in ChanType
  BY DEF IInv, ContractTypeOK, ChanType
<1>1. ASSUME NEW v, CanDispute(v), TxDispute(v)
      PROVE  chan.open /\ chan' = [chan EXCEPT !.disputed = TRUE, !.expired = FALSE,
                                               !.version = v]
  BY <1>1 DEF CanDispute, TxDispute
<1>2. ASSUME Elapse PROVE chan' = [chan EXCEPT !.expired = TRUE]
  BY <1>2 DEF Elapse
<1>3. ASSUME NEW v, CanClose(v), TxClose(v)
      PROVE  chan.open /\ chan' = [chan EXCEPT !.closed = TRUE, !.version = v]
  BY <1>3 DEF CanClose, TxClose
<1>4. ASSUME CanForceClose, TxForceClose PROVE chan' = [chan EXCEPT !.closed = TRUE]
  BY <1>4 DEF CanForceClose, TxForceClose
<1>5. ASSUME NEW p \in Party, CanWithdraw(p, p, FALSE), TxWithdraw(p)
      PROVE  /\ chan.open /\ chan'.closed = chan.closed /\ chan'.disputed = chan.disputed
             /\ \A q \in Party : chan.withdrawn[q] => chan'.withdrawn[q]
  BY <1>0, <1>5 DEF CanWithdraw, TxWithdraw, Absent
<1> QED
  BY <1>0, <1>1, <1>2, <1>3, <1>4, <1>5 DEF Settle, Refute

LEMMA BehindStep ==
    ASSUME IInv, BehindInv, [Next]_vars
    PROVE  BehindInv'
<1> SUFFICES ASSUME chan'.open
             PROVE  /\ chanControl'.closed => chan'.closed
                    /\ chanControl'.disputed => chan'.disputed
                    /\ ~Revoked(chanControl'.withdrawn, chan'.withdrawn)
  BY DEF BehindInv
<1>1. CASE Settle \/ Refute
  BY <1>1, Forward, SettleStep DEF BehindInv, subVars, Revoked
<1>2. CASE UNCHANGED contractVars
  <2>1. chanControl' \in {chanControl, Control(chan), NoControl}
    BY <1>2, Differences
       DEF Next, Goroutine, FirstRead, FirstReadFails, TakeError, ContextDone, Finish, Poll,
           PollFails, Compare, Send, NextCall, Next0, NextEvent, NextNil, Close, Cancel,
           Settle, Refute, subVars, vars, IInv, SubTypeOK
  <2> QED
    BY <1>2, <2>1 DEF BehindInv, Control, NoControl, Absent, Neither, Revoked, contractVars
<1>3. Settle \/ Refute \/ UNCHANGED contractVars
  BY DEF Next, Goroutine, FirstRead, FirstReadFails, TakeError, ContextDone, Finish, Poll,
         PollFails, CallFails, Send, NextCall, Next0, NextEvent, NextNil, Close, Cancel,
         vars
<1> QED
  BY <1>1, <1>2, <1>3

LEMMA ReasonStep ==
    ASSUME IInv, BehindInv, EndsForAReason, [Next]_vars
    PROVE  EndsForAReason'
<1> USE DEF EndsForAReason
<1>0. SubTypeOK /\ faults \in Nat
  BY MaxFaultsAssumption DEF IInv, SubTypeOK
<1>1. CASE Settle \/ Refute
  <2>1. chan'.open => chan.open
    BY <1>1, Forward
  <2> QED
    BY <1>1, <2>1, SettleStep DEF subVars, userVars
<1>2. ASSUME CallFails(chan.open) PROVE faults' > 0 \/ ~chan'.open
  BY <1>0, <1>2 DEF CallFails, NoFault, Fault, contractVars
<1>3. CASE Poll
  <2>1. DifferencesInControls(chanControl, Control(chan)) # "error"
    BY <1>3, WhatIsNew DEF Poll
  <2> QED
    BY <1>3, <2>1 DEF Poll, Compare, NoFault, contractVars, userVars
<1>4. CASE PollFails
  BY <1>2, <1>4, Differences DEF PollFails, Compare
<1>5. CASE FirstReadFails
  BY <1>2, <1>5 DEF FirstReadFails
<1>6. CASE FirstRead \/ TakeError \/ ContextDone
  BY <1>6 DEF FirstRead, TakeError, ContextDone, Finish, NoFault, contractVars, userVars
<1>7. CASE Send
  BY <1>7, SendStep DEF Send, contractVars, userVars, GetType
<1>8. CASE NextCall \/ Close \/ Cancel \/ UNCHANGED vars
  BY <1>8 DEF NextCall, Next0, NextEvent, NextNil, Close, Cancel, vars, subVars,
     contractVars, userVars
<1> QED
  BY <1>1, <1>3, <1>4, <1>5, <1>6, <1>7, <1>8 DEF Next, Goroutine

LEMMA BehindAlways == Spec => [](BehindInv /\ EndsForAReason)
<1>1. Init => BehindInv /\ EndsForAReason
  BY DEF Init, BehindInv, EndsForAReason, NoControl, Control, Absent, Neither, Revoked
<1> QED
  BY <1>1, BehindStep, ReasonStep, IInvAlways, PTL DEF Spec

\* The events and the errors of the subscription never disturb it by themselves: as long
\* as no call fails, the context lives and the channel exists, the goroutine is neither
\* blocked on its error channel nor finished, and Err is nil.
THEOREM ListensOn ==
    Spec => [](faults = 0 /\ chan.open =>
                  /\ run # "stuck" /\ ~subError /\ ~err
                  /\ ~cancelled => run \in {"first", "select", "send"})
<1>1. IInv /\ EndsForAReason =>
        (faults = 0 /\ chan.open =>
            /\ run # "stuck" /\ ~subError /\ ~err
            /\ ~cancelled => run \in {"first", "select", "send"})
  BY DEF EndsForAReason, IInv, SubTypeOK
<1> QED
  BY <1>1, BehindAlways, IInvAlways, PTL

\* A poll of an existing channel leaves no stage out: it builds a concluded event for a
\* closed channel, a registered event for a dispute that is not in the stored control, and
\* no event otherwise.
PollTells ==
    Poll =>
        pending' = IF chan.closed THEN Event("concluded")
                   ELSE IF chan.disputed /\ ~chanControl.disputed THEN Event("registered")
                   ELSE NoEvent

\* What has been stored before a dispute is kept, so that each later poll tells of it.
DisputeStaysNews == run # "first" /\ ~chanControl.disputed => ~chanControl'.disputed

THEOREM PollsTell == Spec => [][PollTells]_vars
<1>1. ASSUME IInv, BehindInv, Poll
      PROVE  PollTells
  <2> DEFINE diff == DifferencesInControls(chanControl, Control(chan))
  <2>1. diff = IF chan.closed THEN "concluded"
               ELSE IF chan.disputed /\ ~chanControl.disputed THEN "registered"
               ELSE "none"
    BY <1>1, WhatIsNew DEF Poll
  <2>2. pending' = IF diff \in {"none", "error"} THEN pending ELSE Event(diff)
    BY <1>1 DEF Poll, Compare
  <2>3. pending = NoEvent
    BY <1>1 DEF Poll, Polls, IInv, SubTypeOK
  <2> HIDE DEF diff
  <2> QED
    BY <2>1, <2>2, <2>3 DEF PollTells
<1>2. IInv /\ BehindInv /\ [Next]_vars => [PollTells]_vars
  BY <1>1 DEF PollTells
<1> QED
  BY <1>2, BehindAlways, IInvAlways, PTL DEF Spec

\* A dispute that has not been told stays news for the goroutine until the end: neither a
\* poll that fails nor one that succeeds makes it part of the stored control.
THEOREM DisputesStayNews == Spec => [][DisputeStaysNews]_vars
<1>1. ASSUME IInv, BehindInv, [Next]_vars, run # "first", ~chanControl.disputed
      PROVE  ~chanControl'.disputed
  <2>1. CASE Poll
    <3>1. CASE DifferencesInControls(chanControl, Control(chan)) = "none"
      <4>1. ~chan.disputed
        BY <1>1, <2>1, <3>1, WhatIsNew DEF Poll
      <4> QED
        BY <2>1, <3>1, <4>1 DEF Poll, Compare, Control
    <3>2. CASE DifferencesInControls(chanControl, Control(chan)) # "none"
      <4>1. DifferencesInControls(chanControl, Control(chan)) # "error"
        BY <1>1, <2>1, WhatIsNew DEF Poll
      <4> QED
        BY <1>1, <2>1, <3>2, <4>1 DEF Poll, Compare
    <3> QED
      BY <3>1, <3>2
  <2>2. CASE PollFails
    BY <1>1, <2>2 DEF PollFails, Compare, NoControl, Control, Absent
  <2>3. CASE ~Poll /\ ~PollFails
    <3>1. chanControl' = chanControl
      BY <1>1, <2>3
         DEF Next, Goroutine, FirstRead, FirstReadFails, TakeError, ContextDone, Finish, Send,
             NextCall, Next0, NextEvent, NextNil, Close, Cancel, Settle, Refute, subVars, vars
    <3> QED
      BY <1>1, <3>1
  <2> QED
    BY <2>1, <2>2, <2>3
<1>2. IInv /\ BehindInv /\ [Next]_vars => [DisputeStaysNews]_vars
  BY <1>1 DEF DisputeStaysNews
<1> QED
  BY <1>2, BehindAlways, IInvAlways, PTL DEF Spec
=============================================================================
