------------------------------ MODULE Oneshot -------------------------------
(***************************************************************************)
(* The shim's oneshot channel.  send(self) stores the value under the      *)
(* lock, releases it, and then drops self, which takes the lock again: a   *)
(* receiver on another thread may poll in between.                         *)
(***************************************************************************)
EXTENDS Naturals

VARIABLE once

OnceType ==
  [ value : BOOLEAN,                  \* value is Some
    waker : BOOLEAN,
    sender_alive : BOOLEAN,
    tx : {"held", "sent", "gone"},    \* "sent": send() has yet to drop self
    rx : {"new", "parked", "ok", "err", "gone"},
    woken : BOOLEAN,
    wasSent : BOOLEAN ]               \* history

TypeOK == once \in OnceType

Init ==
  once = [ value |-> FALSE, waker |-> FALSE, sender_alive |-> TRUE,
           tx |-> "held", rx |-> "new", woken |-> FALSE, wasSent |-> FALSE ]

Wake(o) == [o EXCEPT !.woken = @ \/ o.waker, !.waker = FALSE]

(* send, up to the end of its critical section; also when nobody listens.  *)
Send ==
  /\ once.tx = "held"
  /\ once' = Wake([once EXCEPT !.value = TRUE, !.tx = "sent", !.wasSent = TRUE])

DropSender ==
  /\ once.tx # "gone"
  /\ once' = Wake([once EXCEPT !.sender_alive = FALSE, !.tx = "gone"])

AskAliveFirst(o) ==           \* mutant: looks for the sender, then for a value
  CASE ~o.sender_alive  -> [o EXCEPT !.rx = "err"]
    [] o.sender_alive /\ o.value -> [o EXCEPT !.value = FALSE, !.rx = "ok"]
    [] OTHER            -> [o EXCEPT !.waker = TRUE, !.rx = "parked"]

Outcome(o) ==
  CASE o.value          -> [o EXCEPT !.value = FALSE, !.rx = "ok"]
    [] ~o.value /\ ~o.sender_alive -> [o EXCEPT !.rx = "err"]
    [] OTHER            -> [o EXCEPT !.waker = TRUE, !.rx = "parked"]

Poll ==
  /\ once.rx = "new" \/ (once.rx = "parked" /\ once.woken)
  /\ once' = Outcome([once EXCEPT !.woken = FALSE])

DropReceiver ==
  /\ once.rx # "gone"
  /\ once' = [once EXCEPT !.rx = "gone"]

Next == Send \/ DropSender \/ Poll \/ DropReceiver

Spec == Init /\ [][Next]_once

-----------------------------------------------------------------------------
(* A value that was sent is in the channel until the receiver has it, the  *)
(* receiver is told of an error only when no value was sent, and it waits  *)
(* only while there may be one.                                            *)
SentIsDelivered ==
  /\ once.wasSent /\ once.rx # "gone" => once.value # (once.rx = "ok")
  /\ once.rx = "err" => ~once.wasSent
  /\ once.rx = "parked" /\ ~once.woken => once.waker /\ ~once.value /\ once.tx # "gone"

=============================================================================
