-------------------------------- MODULE Mpsc --------------------------------
(***************************************************************************)
(* The shim's mpsc channels, bounded and unbounded.  Every operation holds *)
(* the channel's std mutex from beginning to end and is one step; senders  *)
(* and the receiver are on any threads.  A message is its position in the  *)
(* order in which the channel accepted them.  The capacity of a bounded    *)
(* channel is not looked at when sending.                                  *)
(***************************************************************************)
EXTENDS Integers, Sequences, FiniteSets

CONSTANTS
  Senders,    \* names for Sender values
  MaxSends    \* bound: messages sent

MpscAssumption == Senders # {} /\ IsFiniteSet(Senders) /\ MaxSends \in Nat

VARIABLE chan

ChannelType ==
  [ bounded : BOOLEAN,              \* which of the two channels it is
    queue   : Seq(1 .. MaxSends),
    count   : 0 .. Cardinality(Senders),      \* sender_count
    alive   : BOOLEAN,              \* receiver_alive
    waker   : BOOLEAN,              \* receiver_waker is Some
    senders : SUBSET Senders,       \* the Sender values that exist
    permits : SUBSET Senders,       \* those that a Permit borrows
    owned   : SUBSET Senders,       \* those inside an OwnedPermit
    recv    : {"idle", "parked", "ended", "gone"},
    woken   : BOOLEAN,              \* its task was woken and not polled since
    sent    : 0 .. MaxSends,        \* messages accepted and received (history)
    got     : 0 .. MaxSends ]

TypeOK == chan \in ChannelType

NewChannel(isBounded, s) ==
  [ bounded |-> isBounded, queue |-> << >>, count |-> 1, alive |-> TRUE,
    waker |-> FALSE, senders |-> {s}, permits |-> {}, owned |-> {},
    recv |-> "idle", woken |-> FALSE, sent |-> 0, got |-> 0 ]

NewUnbounded(s) == NewChannel(FALSE, s)

Init == \E s \in Senders : chan \in {NewChannel(TRUE, s), NewUnbounded(s)}

-----------------------------------------------------------------------------
WakeReceiver(c) == [c EXCEPT !.woken = @ \/ c.waker, !.waker = FALSE]

Overtake(c) ==                            \* mutant: the newest goes first
  WakeReceiver([c EXCEPT !.sent = @ + 1, !.queue = <<c.sent + 1>> \o @])

(* Push a message and wake whoever waits for one. *)
Accept(c) ==
  WakeReceiver([c EXCEPT !.sent = @ + 1, !.queue = Append(@, c.sent + 1)])

Send(s) ==
  /\ chan.alive /\ chan.sent < MaxSends
  /\ s \in chan.senders
  /\ chan' = Accept(chan)

Clone(s) ==
  /\ chan.senders # {}
  /\ s \notin chan.senders \cup chan.owned
  /\ chan' = [chan EXCEPT !.senders = @ \cup {s}, !.count = @ + 1]

LeaveQuietly(c) == [c EXCEPT !.count = @ - 1]   \* mutant: nobody is told

(* Sender::drop *)
Leave(c) ==
  LET left == [c EXCEPT !.count = @ - 1] IN
  IF left.count = 0 THEN WakeReceiver(left) ELSE left

DropSender(s) ==
  /\ s \in chan.senders \ chan.permits
  /\ chan' = Leave([chan EXCEPT !.senders = @ \ {s}])

Reserve(s) ==
  /\ chan.bounded /\ chan.alive
  /\ s \in chan.senders \ chan.permits
  /\ chan' = [chan EXCEPT !.permits = @ \cup {s}]

(* A permit's send does not ask whether the receiver is still there. *)
PermitSend(s) ==
  /\ s \in chan.permits /\ chan.sent < MaxSends
  /\ chan' = Accept([chan EXCEPT !.permits = @ \ {s}])

PermitDrop(s) ==
  /\ s \in chan.permits
  /\ chan' = [chan EXCEPT !.permits = @ \ {s}]

(* reserve_owned consumes the sender; on a closed channel it is dropped. *)
ReserveOwned(s) ==
  /\ chan.bounded
  /\ s \in chan.senders \ chan.permits
  /\ LET without == [chan EXCEPT !.senders = @ \ {s}] IN
     chan' = IF chan.alive THEN [without EXCEPT !.owned = @ \cup {s}]
                           ELSE Leave(without)

CountsAgain(s) ==             \* mutant: as if the sender were cloned
  [chan EXCEPT !.owned = @ \ {s}, !.senders = @ \cup {s}, !.count = @ + 1]

GiveBack(s) == [chan EXCEPT !.owned = @ \ {s}, !.senders = @ \cup {s}]

OwnedSend(s) ==
  /\ s \in chan.owned /\ chan.sent < MaxSends
  /\ chan' = Accept(GiveBack(s))

OwnedRelease(s) ==
  /\ s \in chan.owned
  /\ chan' = GiveBack(s)

(* Dropping the permit drops the sender in it. *)
OwnedDrop(s) ==
  /\ s \in chan.owned
  /\ chan' = Leave([chan EXCEPT !.owned = @ \ {s}])

-----------------------------------------------------------------------------
TakeFirst(c) == [c EXCEPT !.queue = Tail(@), !.got = Head(c.queue)]

(* recv() and poll_recv(): RecvFuture is polled first, or again once woken. *)
PollRecv ==
  /\ chan.recv = "idle" \/ (chan.recv = "parked" /\ chan.woken)
  /\ chan' =
       IF chan.queue # << >> THEN TakeFirst([chan EXCEPT !.recv = "idle", !.woken = FALSE])
       ELSE IF chan.count = 0 THEN [chan EXCEPT !.recv = "ended", !.woken = FALSE]
       ELSE [chan EXCEPT !.recv = "parked", !.waker = TRUE, !.woken = FALSE]

TryRecv ==
  /\ chan.recv = "idle"
  /\ chan.queue # << >>
  /\ chan' = TakeFirst(chan)

(* A waiting recv() is dropped; its waker stays in the channel. *)
CancelRecv ==
  /\ chan.recv = "parked"
  /\ chan' = [chan EXCEPT !.recv = "idle"]

Close ==
  /\ chan.recv = "idle"
  /\ chan' = [chan EXCEPT !.alive = FALSE]

DropReceiver ==
  /\ chan.recv \in {"idle", "ended"}
  /\ chan' = [chan EXCEPT !.recv = "gone", !.alive = FALSE]

-----------------------------------------------------------------------------
Next ==
  \/ \E s \in Senders :
       \/ Send(s) \/ Clone(s) \/ DropSender(s)
       \/ Reserve(s) \/ PermitSend(s) \/ PermitDrop(s)
       \/ ReserveOwned(s) \/ OwnedSend(s) \/ OwnedRelease(s) \/ OwnedDrop(s)
  \/ PollRecv \/ TryRecv \/ CancelRecv \/ Close \/ DropReceiver

Spec == Init /\ [][Next]_chan

-----------------------------------------------------------------------------
(* Properties *)

(* What was accepted is received once and in order, whoever sent it: the   *)
(* channel holds the messages after the last received up to the last sent; *)
(* and recv() says that there will be no more only when there will not be. *)
InOrder ==
  /\ chan.queue = [i \in 1 .. chan.sent - chan.got |-> chan.got + i]
  /\ chan.recv = "ended" =>
       chan.got = chan.sent /\ chan.senders = {} /\ chan.owned = {}

(* Whose send will not fail. *)
CanSend == IF chan.alive THEN chan.senders \cup chan.owned ELSE chan.permits \cup chan.owned

ReceiverWaits == chan.recv = "parked" /\ ~chan.woken

(* A receiver that waits has nothing to take and its waker in the channel; *)
(* and there is somebody who can send, or, in a channel that it has closed *)
(* itself, at least somebody whose drop will wake it.                      *)
ReceiverWaitsForSomething ==
  ReceiverWaits =>
    /\ chan.waker /\ chan.queue = << >>
    /\ CanSend # {} \/ (~chan.alive /\ chan.senders # {})

(* It waits only for somebody who can send.  It is not so: in a closed     *)
(* channel it waits until the last sender, who cannot send, is dropped.    *)
ReceiverWaitsForASender == ReceiverWaits => CanSend # {}

=============================================================================
