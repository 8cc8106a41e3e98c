--------------------------- MODULE AdjSubscription ---------------------------
(***************************************************************************)
(* One subscription to the events of a channel (channel/adjudicator_sub.go *)
(* and channel/subscribe.go).  The goroutine started by NewAdjudicatorSub  *)
(* polls the channel, compares its control with the one it has stored, and *)
(* sends an event for a difference into a bounded Go channel.  A consumer  *)
(* takes events with Next and may Close the subscription.  Meanwhile the   *)
(* parties dispute, close and withdraw on the contract.  The consumer is   *)
(* go-perun's watcher: it answers a registered event of an older version   *)
(* with its party's last state.                                            *)
(*                                                                         *)
(* The poll is one action, its sends are others, because they may block.   *)
(* In a select the goroutine takes a pending error or a cancelled context  *)
(* before the timer fires.                                                 *)
(***************************************************************************)
EXTENDS ContractCalls, Sequences

CONSTANT BufferSize    \* DefaultBufferSize, the capacity of events

ASSUME BufferSizeAssumption == BufferSize \in Nat \ {0}

VARIABLES
    run,         \* where the goroutine is; "done" after finish, "returned" without
    chanControl, \* the control that the goroutine has stored
    pending,     \* the event being sent
    events,      \* the Go channel of events
    subError,    \* an error is in subErrors, a Go channel of capacity one
    err,         \* what Err returns: FALSE for nil
    cancelled,   \* the context of the subscription is done
    closer,      \* Close has been called
    waiting,     \* a call of Next is under way
    got          \* what Next has returned last

subVars == <<run, chanControl, pending, events, subError, err>>
userVars == <<cancelled, closer, waiting, got>>
vars == <<contractVars, faults, subVars, userVars>>

-----------------------------------------------------------------------------
(* Controls and their differences *)

Control(c) == [funded |-> c.funded, closed |-> c.closed,
               withdrawn |-> c.withdrawn, disputed |-> c.disputed]

\* What GetChannelInfo leaves in its result when it fails.
NoControl == Control(Absent)

\* A flag of some party went from TRUE to FALSE.
Revoked(f, g) == \E p \in Party : f[p] /\ ~g[p]

\* Mutant of DifferencesInControls: a dispute is looked for before a closing.
DisputeFirst(c, n) ==
    IF Revoked(c.funded, n.funded) \/ (c.closed /\ ~n.closed) THEN "error"
    ELSE IF ~c.disputed /\ n.disputed THEN "registered"
    ELSE IF n.closed THEN "concluded"
    ELSE "none"

\* Mutant of DifferencesInControls: a dispute counts as a closing.
DisputeCloses(c, n) ==
    IF Revoked(c.funded, n.funded) \/ (c.closed /\ ~n.closed) THEN "error"
    ELSE IF n.closed \/ (~c.disputed /\ n.disputed) THEN "concluded"
    ELSE "none"

\* Mutant of DifferencesInControls: a withdrawal hides the closing.
WithdrawalFirst(c, n) ==
    IF Revoked(c.funded, n.funded) \/ (c.closed /\ ~n.closed) THEN "error"
    ELSE IF n.closed /\ c.withdrawn = n.withdrawn THEN "concluded"
    ELSE IF ~c.disputed /\ n.disputed THEN "registered"
    ELSE "none"

\* DifferencesInControls: the first difference in this order decides.  A channel
\* that is closed is an event every time, also without a difference.
DifferencesInControls(c, n) ==
    LET allWithdrawn == \A p \in Party : n.withdrawn[p]
    IN  IF Revoked(c.funded, n.funded) THEN "error"
        ELSE IF c.funded[1] # n.funded[1] /\ allWithdrawn THEN "fund"
        ELSE IF c.closed /\ ~n.closed THEN "error"
        ELSE IF n.closed THEN "concluded"
        ELSE IF Revoked(c.withdrawn, n.withdrawn) THEN "error"
        ELSE IF c.withdrawn # n.withdrawn /\ allWithdrawn THEN "withdrawn"
        ELSE IF c.disputed /\ ~n.disputed THEN "error"
        ELSE IF c.disputed # n.disputed THEN "registered"
        ELSE "none"

\* Mutant of Event: it carries a version that the caller knows.
EventOfLast(kind) == [kind |-> kind, version |-> hist.last]

\* The event that is built for a difference; its version is never set.
Event(kind) == [kind |-> kind, version |-> 0]

NoEvent == Event("none")

\* GetType of such an event.  Its channel is never set either, and the flags of an
\* empty channel are those of no withdrawn event.
GetType(event) ==
    CASE event.kind = "concluded" -> "EventTypeClosed"
      [] event.kind = "registered" -> "EventTypeDisputed"
      [] OTHER -> "EventTypeError"

-----------------------------------------------------------------------------
(* The goroutine *)

FirstRead ==
    /\ run = "first"
    /\ chan.open
    /\ run' = "select"
    /\ chanControl' = Control(chan)
    /\ NoFault
    /\ UNCHANGED <<contractVars, pending, events, subError, err, userVars>>

FirstReadFails ==
    /\ run = "first"
    /\ CallFails(chan.open)
    /\ run' = "select"
    /\ subError' = TRUE
    /\ UNCHANGED <<chanControl, pending, events, err, userVars>>

\* finish: Err returns e from now on, and the Go channel is closed.
Finish(e) ==
    /\ run' = "done"
    /\ err' = e
    /\ UNCHANGED <<contractVars, faults, chanControl, pending, events, userVars>>

TakeError ==
    /\ run = "select"
    /\ subError
    /\ subError' = FALSE
    /\ Finish(TRUE)

ContextDone ==
    /\ run = "select"
    /\ cancelled
    /\ UNCHANGED subError
    /\ Finish(FALSE)

Polls == run = "select" /\ ~subError /\ ~cancelled

\* What follows the comparison.  An event is sent, and the stored control stays
\* as it is; otherwise the new control is stored.
Compare(next) ==
    LET diff == DifferencesInControls(chanControl, next)
    IN  IF diff \in {"none", "error"}
        THEN /\ run' = "select"
             /\ chanControl' = next
             /\ UNCHANGED pending
        ELSE /\ run' = "send"
             /\ pending' = Event(diff)
             /\ UNCHANGED chanControl

Poll ==
    /\ Polls
    /\ chan.open
    /\ Compare(Control(chan))
    /\ subError' = (DifferencesInControls(chanControl, Control(chan)) = "error")
    /\ NoFault
    /\ UNCHANGED <<contractVars, events, err, userVars>>

\* A failed read is one error, and the comparison with the empty control that it
\* leaves is a second one if the channel was funded.  Nobody but this goroutine
\* receives from subErrors, so the second send blocks for good.
PollFails ==
    /\ Polls
    /\ CallFails(chan.open)
    /\ subError' = TRUE
    /\ IF DifferencesInControls(chanControl, NoControl) = "error"
       THEN run' = "stuck" /\ UNCHANGED <<chanControl, pending>>
       ELSE Compare(NoControl)
    /\ UNCHANGED <<events, err, userVars>>

\* Mutant of Send: the buffer has no bound.
SendUnbounded ==
    /\ run = "send"
    /\ events' = Append(events, pending)
    /\ pending' = NoEvent
    /\ run' = "select"
    /\ UNCHANGED <<contractVars, faults, chanControl, subError, err, userVars>>

\* The send blocks while the buffer is full.  The goroutine would return, and leave
\* the Go channel open, after an event of type "withdrawn".
Send ==
    /\ run = "send"
    /\ Len(events) < BufferSize
    /\ events' = Append(events, pending)
    /\ pending' = NoEvent
    /\ run' = IF GetType(pending) = "EventTypeWithdrawn" THEN "returned" ELSE "select"
    /\ UNCHANGED <<contractVars, faults, chanControl, subError, err, userVars>>

-----------------------------------------------------------------------------
(* The consumer *)

\* Next returns nil at once when the closer is closed, and waits otherwise.
Next0 ==
    /\ ~waiting
    /\ IF closer
       THEN got' = Event("nil") /\ UNCHANGED waiting
       ELSE waiting' = TRUE /\ UNCHANGED got
    /\ UNCHANGED <<contractVars, faults, subVars, cancelled, closer>>

NextEvent ==
    /\ waiting
    /\ events # <<>>
    /\ waiting' = FALSE
    /\ events' = Tail(events)
    /\ got' = IF Head(events).kind \in {"registered", "concluded"}
              THEN Head(events) ELSE Event("nil")
    /\ UNCHANGED <<contractVars, faults, run, chanControl, pending, subError, err,
                   cancelled, closer>>

\* The closer is closed, or finish has closed the Go channel and it is empty.
NextNil ==
    /\ waiting
    /\ closer \/ (run = "done" /\ events = <<>>)
    /\ waiting' = FALSE
    /\ got' = Event("nil")
    /\ UNCHANGED <<contractVars, faults, subVars, cancelled, closer>>

\* Close closes the closer, and nothing else.
Close ==
    /\ ~closer
    /\ closer' = TRUE
    /\ UNCHANGED <<contractVars, faults, subVars, cancelled, waiting, got>>

\* The caller of Subscribe cancels its context.
Cancel ==
    /\ ~cancelled
    /\ cancelled' = TRUE
    /\ UNCHANGED <<contractVars, faults, subVars, closer, waiting, got>>

-----------------------------------------------------------------------------
(* The parties, on the contract *)

Settle ==
    /\ \/ \E v \in Versions : CanDispute(v) /\ TxDispute(v)
       \/ Elapse
       \/ \E v \in Versions : CanClose(v) /\ TxClose(v)
       \/ CanForceClose /\ TxForceClose
       \/ \E p \in Party : CanWithdraw(p, p, FALSE) /\ TxWithdraw(p)
    /\ UNCHANGED <<faults, subVars, userVars>>

\* The watcher behind the consumer: told of an older version, it registers the last
\* state, unless the contract would reject that.
Refute ==
    /\ got.kind = "registered"
    /\ got.version < hist.last
    /\ CanDispute(hist.last) /\ TxDispute(hist.last)
    /\ UNCHANGED <<faults, subVars, userVars>>

-----------------------------------------------------------------------------
\* The channel has been funded; it may have been disputed already.
Init ==
    /\ hist \in Histories
    /\ \E d \in BOOLEAN :
          chan = [Absent EXCEPT !.open = TRUE, !.disputed = d,
                                !.funded = [p \in Party |-> TRUE]]
    /\ wallet = Endowment
    /\ held = [a \in Asset |-> Share(0, 0, a) + Share(0, 1, a)]
    /\ faults = 0
    /\ run = "first"
    /\ chanControl = NoControl
    /\ pending = NoEvent
    /\ events = <<>>
    /\ subError = FALSE
    /\ err = FALSE
    /\ cancelled = FALSE
    /\ closer = FALSE
    /\ waiting = FALSE
    /\ got = NoEvent

Goroutine ==
    \/ FirstRead \/ FirstReadFails
    \/ TakeError \/ ContextDone
    \/ Poll \/ PollFails \/ Send

NextCall == Next0 \/ NextEvent \/ NextNil

Next == Goroutine \/ NextCall \/ Close \/ Cancel \/ Settle \/ Refute

Spec == Init /\ [][Next]_vars

\* The goroutine runs when it can, and the consumer calls Next again and again and
\* acts on what it is told.
FairSpec == Spec /\ WF_vars(Goroutine) /\ WF_vars(NextCall) /\ WF_vars(Refute)

-----------------------------------------------------------------------------
(* Properties *)

Controls == [funded : [Party -> BOOLEAN], closed : BOOLEAN,
             withdrawn : [Party -> BOOLEAN], disputed : BOOLEAN]
Events == [kind : {"none", "nil", "fund", "concluded", "withdrawn", "registered"},
           version : {0}]

\* Every variable has its type, and the buffer its capacity.
TypeOK ==
    /\ ContractTypeOK
    /\ faults \in 0..MaxFaults
    /\ run \in {"first", "select", "send", "stuck", "done", "returned"}
    /\ chanControl \in Controls
    /\ {pending, got} \subseteq Events
    /\ Len(events) <= BufferSize
    /\ \A i \in 1..Len(events) : events[i] \in Events
    /\ {subError, err, cancelled, closer, waiting} \subseteq BOOLEAN

Told == {pending, got} \cup {events[i] : i \in 1..Len(events)}

\* No false alarm: a concluded event, on its way or delivered, is about a channel
\* that has been closed, and a registered event about one that has been disputed.
EventsAreTrue ==
    \A e \in Told :
        /\ e.kind = "concluded" => chan.closed \/ ~chan.open
        /\ e.kind = "registered" => chan.disputed \/ ~chan.open

\* Nothing follows a concluded event but another one or the end: the events that
\* are repeated with every poll never bring an older stage of the channel back.
ConcludedIsLast ==
    LET order == <<got>> \o events \o (IF pending = NoEvent THEN <<>> ELSE <<pending>>)
    IN  \A i, j \in 1..Len(order) :
            i < j /\ order[i].kind = "concluded" => order[j].kind = "concluded"

\* The subscription is undisturbed, and its consumer still listens.
Listening == ~closer /\ ~cancelled /\ faults = 0 /\ chan.open

\* A dispute that begins after the first read is told to the consumer, unless the
\* channel is closed first; and so is a closing, unless the channel is deleted.
DisputeTold ==
    run # "first" /\ ~chanControl.disputed /\ chan.disputed
        ~> got.kind = "registered" \/ chan.closed \/ ~Listening
ClosingTold ==
    run # "first" /\ chan.closed ~> got.kind = "concluded" \/ ~Listening

\* A dispute with an older state does not go unanswered: although the events of the
\* subscription never carry the version of the dispute, and are repeated as long as
\* it lasts, the watcher behind them has the last state registered, unless the
\* challenge period ends or the channel is closed first.
Refuted ==
    run # "first" /\ ~chanControl.disputed /\ chan.disputed
        ~> chan.version = hist.last \/ chan.expired \/ chan.closed \/ ~Listening

(* What the repository says and the code does not do; see the README. *)

\* "Close closes the event subscription": its goroutine ends.
CloseEnds == closer ~> run = "done"
=============================================================================
