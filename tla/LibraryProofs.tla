--------------------------- MODULE LibraryProofs ---------------------------
(***************************************************************************)
(* The properties that the run Library checks on small instances, as       *)
(* theorems of MCLibrary's specification.  StreamProofs and ByteProofs     *)
(* have the invariants of two groups of components, here are those of the  *)
(* others (channels, Notify, Semaphore, JoinSet, timers); each is proved   *)
(* of its component's Init and Next, and LibraryInv puts them together.    *)
(***************************************************************************)
EXTENDS MCLibrary, ByteProofs

-----------------------------------------------------------------------------
(* Mpsc.  The count of senders is what tells the receiver of the end, so   *)
(* that its exactness is the heart of the invariant.                       *)

(* Everybody who can still send: senders, and permits that own one. *)
Able == chan.senders \cup chan.owned

(* sender_count counts whoever can send, and a permit borrows a sender. *)
SendersCounted ==
  /\ chan.senders \cap chan.owned = {}
  /\ chan.permits \subseteq chan.senders
  /\ chan.count = Cardinality(Able)

GotWasSent == chan.got <= chan.sent

(* A receiver that waits has nothing to take, its waker in the channel, and *)
(* somebody who counts as a sender.                                        *)
ReceiverInv ==
  chan.recv = "parked" /\ ~chan.woken => chan.waker /\ chan.queue = << >> /\ Able # {}

ChannelInv == Channel!TypeOK /\ SendersCounted /\ GotWasSent /\ Channel!InOrder /\ ReceiverInv

-----------------------------------------------------------------------------
(* Queues of consecutive messages, and the sizes of sets of senders *)

(* The messages after the g-th, up to the n-th. *)
RunOf(g, n) == [i \in 1 .. n - g |-> g + i]

LEMMA RunIsSeq ==
  ASSUME NEW g \in Nat, NEW n \in Nat, g <= n
  PROVE  /\ RunOf(g, n) \in Seq(Nat) /\ Len(RunOf(g, n)) = n - g
         /\ \A i \in 1 .. n - g : RunOf(g, n)[i] = g + i
<1>1. n - g \in Nat /\ RunOf(g, n) \in [1 .. n - g -> Nat]
  BY DEF RunOf
<1>2. RunOf(g, n) \in Seq(Nat) /\ Len(RunOf(g, n)) = n - g
  BY <1>1, SeqDef, LenProperties
<1> QED BY <1>2 DEF RunOf

LEMMA AppendNext ==
  ASSUME NEW g \in Nat, NEW n \in Nat, g <= n
  PROVE  Append(RunOf(g, n), n + 1) = RunOf(g, n + 1)
<1>1. /\ Append(RunOf(g, n), n + 1) \in Seq(Nat) /\ Len(Append(RunOf(g, n), n + 1)) = n - g + 1
      /\ \A i \in 1 .. n - g : Append(RunOf(g, n), n + 1)[i] = RunOf(g, n)[i]
      /\ Append(RunOf(g, n), n + 1)[n - g + 1] = n + 1
  <2>1. RunOf(g, n) \in Seq(Nat) /\ Len(RunOf(g, n)) = n - g /\ n + 1 \in Nat
    BY RunIsSeq
  <2>2. /\ Append(RunOf(g, n), n + 1) \in Seq(Nat)
        /\ Len(Append(RunOf(g, n), n + 1)) = Len(RunOf(g, n)) + 1
        /\ \A i \in 1 .. Len(RunOf(g, n)) : Append(RunOf(g, n), n + 1)[i] = RunOf(g, n)[i]
        /\ Append(RunOf(g, n), n + 1)[Len(RunOf(g, n)) + 1] = n + 1
    BY <2>1, AppendProperties
  <2> QED BY <2>1, <2>2
<1>2. /\ RunOf(g, n + 1) \in Seq(Nat) /\ Len(RunOf(g, n + 1)) = n - g + 1
      /\ \A i \in 1 .. n - g + 1 : RunOf(g, n + 1)[i] = g + i
  <2>1. n + 1 \in Nat /\ g <= n + 1 /\ n + 1 - g = n - g + 1
    OBVIOUS
  <2> QED BY <2>1, RunIsSeq
<1>3. ASSUME NEW i \in 1 .. n - g + 1 PROVE Append(RunOf(g, n), n + 1)[i] = RunOf(g, n + 1)[i]
  <2>1. CASE i \in 1 .. n - g
    BY <2>1, <1>1, <1>2, RunIsSeq
  <2>2. CASE i = n - g + 1
    BY <2>2, <1>1, <1>2
  <2>3. i \in 1 .. n - g \/ i = n - g + 1
    BY <1>3
  <2> QED BY <2>1, <2>2, <2>3
<1> QED BY <1>1, <1>2, <1>3, SeqEqual

LEMMA TakeNext ==
  ASSUME NEW g \in Nat, NEW n \in Nat, g <= n, RunOf(g, n) # << >>
  PROVE  Head(RunOf(g, n)) = g + 1 /\ g < n /\ Tail(RunOf(g, n)) = RunOf(g + 1, n)
<1>1. Len(RunOf(g, n)) \in Nat \ {0}
  BY RunIsSeq, EmptySeq
<1>2. g < n /\ Len(RunOf(g, n)) = n - g
  BY <1>1, RunIsSeq
<1>3. /\ Tail(RunOf(g, n)) \in Seq(Nat) /\ Len(Tail(RunOf(g, n))) = n - g - 1
      /\ \A i \in 1 .. n - g - 1 : Tail(RunOf(g, n))[i] = RunOf(g, n)[i + 1]
  BY <1>2, RunIsSeq, HeadTailProperties
<1>4. Head(RunOf(g, n)) = g + 1
  <2>1. Head(RunOf(g, n)) = RunOf(g, n)[1]
    BY RunIsSeq
  <2> QED BY <2>1, <1>2, RunIsSeq
<1>5. /\ RunOf(g + 1, n) \in Seq(Nat) /\ Len(RunOf(g + 1, n)) = n - g - 1
      /\ \A i \in 1 .. n - g - 1 : RunOf(g + 1, n)[i] = g + 1 + i
  <2>1. g + 1 \in Nat /\ g + 1 <= n /\ n - (g + 1) = n - g - 1
    BY <1>2
  <2> QED BY <2>1, RunIsSeq
<1>6. ASSUME NEW i \in 1 .. n - g - 1 PROVE Tail(RunOf(g, n))[i] = RunOf(g + 1, n)[i]
  <2>1. i + 1 \in 1 .. n - g /\ RunOf(g, n)[i + 1] = g + (i + 1)
    BY <1>2, RunIsSeq
  <2> QED BY <2>1, <1>3, <1>5
<1>7. Tail(RunOf(g, n)) = RunOf(g + 1, n)
  BY <1>3, <1>5, <1>6, SeqEqual
<1> QED BY <1>2, <1>4, <1>7

(* What the instance assumes, with the cardinality of this module. *)
ChannelAssumption ==
  /\ Senders # {} /\ IsFiniteSet(Senders) /\ MaxSends \in Nat
  /\ \A S : Channel!Cardinality(S) = Cardinality(S)

LEMMA ChannelAssumptionHolds == ChannelAssumption
BY LibraryAssumption DEF Channel!MpscAssumption, ChannelAssumption, Channel!Cardinality, Cardinality,
   Channel!IsFiniteSet, IsFiniteSet

LEMMA SenderCounts ==
  ASSUME ChannelAssumption, NEW S \in SUBSET Senders
  PROVE  /\ Cardinality(S) \in 0 .. Channel!Cardinality(Senders)
         /\ Cardinality(S) = 0 <=> S = {}
         /\ \A x \in Senders \ S : Cardinality(S \cup {x}) = Cardinality(S) + 1
         /\ \A x \in S : Cardinality(S \ {x}) = Cardinality(S) - 1
<1>1. IsFiniteSet(Senders) /\ Cardinality(Senders) \in Nat
  BY FS_CardinalityType DEF ChannelAssumption
<1>2. IsFiniteSet(S) /\ Cardinality(S) <= Cardinality(Senders)
  BY <1>1, FS_Subset
<1>3. Cardinality(S) \in Nat
  BY <1>2, FS_CardinalityType
<1>4. Cardinality(S) = 0 <=> S = {}
  BY <1>2, FS_EmptySet
<1>5. \A x \in Senders \ S : Cardinality(S \cup {x}) = Cardinality(S) + 1
  BY <1>2, FS_AddElement
<1>6. \A x \in S : Cardinality(S \ {x}) = Cardinality(S) - 1
  BY <1>2, FS_RemoveElement
<1>7. Channel!Cardinality(Senders) = Cardinality(Senders)
  BY DEF ChannelAssumption
<1> QED BY <1>1, <1>2, <1>3, <1>4, <1>5, <1>6, <1>7

(* A wake is a change of woken and waker, and nothing else. *)
LEMMA WakeOnly ==
  ASSUME NEW c \in Channel!ChannelType
  PROVE  /\ Channel!WakeReceiver(c) \in Channel!ChannelType
         /\ c.woken \/ c.waker => Channel!WakeReceiver(c).woken
         /\ \E w, v \in BOOLEAN : Channel!WakeReceiver(c) = [c EXCEPT !.woken = w, !.waker = v]
<1> DEFINE w == c.woken \/ c.waker
<1>1. w \in BOOLEAN
  OBVIOUS
<1>2. Channel!WakeReceiver(c) = [c EXCEPT !.woken = w, !.waker = FALSE]
  BY DEF Channel!WakeReceiver
<1>3. c.woken \/ c.waker => w
  OBVIOUS
<1> HIDE DEF w
<1>4. [c EXCEPT !.woken = w, !.waker = FALSE] \in Channel!ChannelType
  BY <1>1 DEF Channel!ChannelType
<1>5. [c EXCEPT !.woken = w, !.waker = FALSE].woken = w
  BY DEF Channel!ChannelType
<1>6. Channel!WakeReceiver(c).woken = w
  BY <1>2, <1>5
<1> QED BY <1>1, <1>2, <1>3, <1>4, <1>6

-----------------------------------------------------------------------------
(* What steps do, in the parts of the invariant *)

(* Senders and permits have changed hands; nobody came and nobody went. *)
SamePeople(c) ==
  /\ c \in Channel!ChannelType
  /\ c.queue = chan.queue /\ c.count = chan.count /\ c.recv = chan.recv
  /\ c.sent = chan.sent /\ c.got = chan.got
  /\ c.woken = chan.woken /\ c.waker = chan.waker
  /\ c.senders \cap c.owned = {} /\ c.permits \subseteq c.senders
  /\ c.senders \cup c.owned = Able

LEMMA Shuffles ==
  ASSUME ChannelInv, NEW s
  PROVE  /\ SamePeople(chan)
         /\ SamePeople([chan EXCEPT !.permits = @ \ {s}])
         /\ s \in chan.senders => SamePeople([chan EXCEPT !.permits = @ \cup {s}])
         /\ s \in chan.owned => SamePeople(Channel!GiveBack(s))
         /\ s \in chan.senders \ chan.permits =>
              SamePeople([[chan EXCEPT !.senders = @ \ {s}] EXCEPT !.owned = @ \cup {s}])
<1>1. SamePeople(chan)
  BY DEF ChannelInv, Channel!TypeOK, SendersCounted, SamePeople, Able
<1>2. SamePeople([chan EXCEPT !.permits = @ \ {s}])
  BY DEF ChannelInv, Channel!TypeOK, Channel!ChannelType, SendersCounted, SamePeople, Able
<1>3. ASSUME s \in chan.senders PROVE SamePeople([chan EXCEPT !.permits = @ \cup {s}])
  BY <1>3 DEF ChannelInv, Channel!TypeOK, Channel!ChannelType, SendersCounted, SamePeople, Able
<1>4. ASSUME s \in chan.owned PROVE SamePeople(Channel!GiveBack(s))
  BY <1>4 DEF ChannelInv, Channel!TypeOK, Channel!ChannelType, SendersCounted, SamePeople, Able, Channel!GiveBack
<1>5. ASSUME s \in chan.senders \ chan.permits
      PROVE  SamePeople([[chan EXCEPT !.senders = @ \ {s}] EXCEPT !.owned = @ \cup {s}])
  BY <1>5 DEF ChannelInv, Channel!TypeOK, Channel!ChannelType, SendersCounted, SamePeople, Able
<1> QED BY <1>1, <1>2, <1>3, <1>4, <1>5

LEMMA SamePeopleKeep ==
  ASSUME ChannelInv, SamePeople(chan')
  PROVE  ChannelInv'
<1>1. Channel!TypeOK' /\ SendersCounted' /\ GotWasSent'
  BY DEF ChannelInv, Channel!TypeOK, SendersCounted, Able, GotWasSent, SamePeople
<1>2. Channel!InOrder'
  BY DEF ChannelInv, Channel!InOrder, SamePeople, Able
<1>3. ReceiverInv'
  BY DEF ChannelInv, ReceiverInv, SamePeople, Able
<1> QED BY <1>1, <1>2, <1>3 DEF ChannelInv

(* A message is accepted from somebody who can send. *)
LEMMA AcceptKeeps ==
  ASSUME ChannelAssumption, ChannelInv, chan.sent < MaxSends, Able # {},
         NEW c, SamePeople(c), chan' = Channel!Accept(c)
  PROVE  ChannelInv'
<1> DEFINE b == [c EXCEPT !.sent = @ + 1, !.queue = Append(@, c.sent + 1)]
<1>1. c.sent + 1 \in 1 .. MaxSends /\ Append(c.queue, c.sent + 1) \in Seq(1 .. MaxSends)
  <2>1. c.queue \in Seq(1 .. MaxSends) /\ c.sent \in 0 .. MaxSends /\ c.sent < MaxSends
    BY DEF SamePeople, Channel!ChannelType
  <2>2. c.sent + 1 \in 1 .. MaxSends
    BY <2>1 DEF ChannelAssumption
  <2> QED BY <2>1, <2>2, AppendProperties
<1>2. b \in Channel!ChannelType
  <2>1. c.sent + 1 \in 0 .. MaxSends
    BY <1>1
  <2> QED BY <1>1, <2>1 DEF SamePeople, Channel!ChannelType
<1>3. /\ b.sent = chan.sent + 1 /\ b.got = chan.got /\ b.recv = chan.recv
      /\ b.queue = Append(chan.queue, chan.sent + 1)
      /\ b.count = chan.count /\ b.woken = chan.woken /\ b.waker = chan.waker
      /\ b.senders \cap b.owned = {} /\ b.permits \subseteq b.senders
      /\ b.senders \cup b.owned = Able
  BY DEF SamePeople, Channel!ChannelType
<1>4. chan' = Channel!WakeReceiver(b)
  BY DEF Channel!Accept
<1> HIDE DEF b
<1>5. Channel!TypeOK' /\ (b.woken \/ b.waker => chan'.woken)
  BY <1>2, <1>4, WakeOnly DEF Channel!TypeOK
<1>6. PICK w, v \in BOOLEAN : chan' = [b EXCEPT !.woken = w, !.waker = v]
  BY <1>2, <1>4, WakeOnly
<1>7. /\ chan'.sent = b.sent /\ chan'.got = b.got /\ chan'.recv = b.recv /\ chan'.queue = b.queue
      /\ chan'.count = b.count /\ chan'.senders = b.senders /\ chan'.owned = b.owned
      /\ chan'.permits = b.permits
  BY <1>2, <1>6 DEF Channel!ChannelType
<1>8. SendersCounted'
  BY <1>3, <1>7 DEF ChannelInv, SendersCounted, Able
<1>9. GotWasSent'
  BY <1>3, <1>7 DEF ChannelInv, GotWasSent, Channel!TypeOK, Channel!ChannelType, ChannelAssumption
<1>10. Channel!InOrder'
  <2>1. chan.recv # "ended"
    BY DEF ChannelInv, Channel!InOrder, Able
  <2>2. chan.got \in Nat /\ chan.sent \in Nat /\ chan.got <= chan.sent
    BY DEF ChannelInv, Channel!TypeOK, Channel!ChannelType, GotWasSent
  <2>3. chan.queue = RunOf(chan.got, chan.sent)
    BY DEF ChannelInv, Channel!InOrder, RunOf
  <2>4. chan'.queue = RunOf(chan'.got, chan'.sent)
    BY <1>3, <1>7, <2>2, <2>3, AppendNext
  <2> QED BY <1>3, <1>7, <2>1, <2>4 DEF Channel!InOrder, RunOf
<1>11. ReceiverInv'
  <2>1. ~(chan'.recv = "parked" /\ ~chan'.woken)
    BY <1>3, <1>5, <1>7 DEF ChannelInv, ReceiverInv
  <2> QED BY <2>1 DEF ReceiverInv
<1> QED BY <1>5, <1>8, <1>9, <1>10, <1>11 DEF ChannelInv

(* Somebody leaves; the last one wakes the receiver. *)
LEMMA LeaveKeeps ==
  ASSUME ChannelAssumption, ChannelInv, NEW s \in Able, s \notin chan.permits,
         NEW c \in Channel!ChannelType,
         c.queue = chan.queue, c.count = chan.count, c.recv = chan.recv,
         c.sent = chan.sent, c.got = chan.got, c.woken = chan.woken, c.waker = chan.waker,
         c.senders = chan.senders \ {s}, c.owned = chan.owned \ {s}, c.permits = chan.permits,
         chan' = Channel!Leave(c)
  PROVE  ChannelInv'
<1> DEFINE b == [c EXCEPT !.count = @ - 1]
<1>1. Able \in SUBSET Senders
  BY DEF ChannelInv, Able, Channel!TypeOK, Channel!ChannelType
<1>2. chan.count = Cardinality(Able) /\ Cardinality(Able \ {s}) = chan.count - 1
  BY <1>1, SenderCounts DEF ChannelInv, SendersCounted
<1>3. Able \ {s} \in SUBSET Senders
  BY <1>1
<1>4. /\ chan.count - 1 \in 0 .. Channel!Cardinality(Senders)
      /\ chan.count - 1 = 0 <=> Able \ {s} = {}
  BY <1>2, <1>3, SenderCounts
<1>5. b \in Channel!ChannelType
  BY <1>4 DEF Channel!ChannelType
<1>6. /\ b.queue = chan.queue /\ b.count = chan.count - 1 /\ b.recv = chan.recv
      /\ b.sent = chan.sent /\ b.got = chan.got
      /\ b.woken = chan.woken /\ b.waker = chan.waker
      /\ b.senders = chan.senders \ {s} /\ b.owned = chan.owned \ {s}
      /\ b.permits = chan.permits
  BY DEF Channel!ChannelType
<1>7. chan' = IF b.count = 0 THEN Channel!WakeReceiver(b) ELSE b
  BY DEF Channel!Leave
<1> HIDE DEF b
<1>8. /\ Channel!TypeOK'
      /\ b.count = 0 => (b.woken \/ b.waker => chan'.woken)
      /\ b.count # 0 => chan' = b
  BY <1>5, <1>7, WakeOnly DEF Channel!TypeOK
<1>9. \E w, v \in BOOLEAN : chan' = [b EXCEPT !.woken = w, !.waker = v]
  <2>1. CASE b.count = 0
    BY <1>5, <1>7, <2>1, WakeOnly
  <2>2. CASE b.count # 0
    <3>1. b.woken \in BOOLEAN /\ b.waker \in BOOLEAN /\ b = [b EXCEPT !.woken = b.woken, !.waker = b.waker]
      BY <1>5 DEF Channel!ChannelType
    <3> QED BY <3>1, <2>2, <1>7
  <2> QED BY <2>1, <2>2
<1>10. /\ chan'.sent = b.sent /\ chan'.got = b.got /\ chan'.recv = b.recv /\ chan'.queue = b.queue
       /\ chan'.count = b.count /\ chan'.senders = b.senders /\ chan'.owned = b.owned
       /\ chan'.permits = b.permits
  BY <1>5, <1>9 DEF Channel!ChannelType
<1>11. chan'.senders \cup chan'.owned = Able \ {s}
  BY <1>6, <1>10 DEF Able
<1>12. SendersCounted'
  BY <1>2, <1>6, <1>10, <1>11 DEF ChannelInv, SendersCounted, Able
<1>13. GotWasSent'
  BY <1>6, <1>10 DEF ChannelInv, GotWasSent
<1>14. Channel!InOrder'
  BY <1>6, <1>10 DEF ChannelInv, Channel!InOrder
<1>15. ReceiverInv'
  <2>1. CASE b.count = 0
    <3>1. ~(chan'.recv = "parked" /\ ~chan'.woken)
      BY <1>6, <1>8, <1>10, <2>1 DEF ChannelInv, ReceiverInv
    <3> QED BY <3>1 DEF ReceiverInv
  <2>2. CASE b.count # 0
    BY <1>4, <1>6, <1>8, <1>10, <1>11, <2>2 DEF ChannelInv, ReceiverInv, Able
  <2> QED BY <2>1, <2>2
<1> QED BY <1>8, <1>12, <1>13, <1>14, <1>15 DEF ChannelInv

(* The receiver's side: a poll, a cancelled one, the end. *)
LEMMA TakeKeeps ==
  ASSUME ChannelAssumption, ChannelInv, chan.queue # << >>, NEW c \in Channel!ChannelType,
         c.queue = chan.queue, c.count = chan.count, c.recv = "idle",
         c.sent = chan.sent, c.got = chan.got,
         c.senders = chan.senders, c.owned = chan.owned, c.permits = chan.permits,
         chan' = Channel!TakeFirst(c)
  PROVE  ChannelInv'
<1>1. chan.got \in Nat /\ chan.sent \in Nat /\ chan.got <= chan.sent /\ chan.sent <= MaxSends
  BY DEF ChannelInv, Channel!TypeOK, Channel!ChannelType, GotWasSent, ChannelAssumption
<1>2. chan.queue = RunOf(chan.got, chan.sent)
  BY DEF ChannelInv, Channel!InOrder, RunOf
<1>3. /\ Head(chan.queue) = chan.got + 1 /\ chan.got < chan.sent
      /\ Tail(chan.queue) = RunOf(chan.got + 1, chan.sent)
  BY <1>1, <1>2, TakeNext
<1>4. chan.got + 1 \in 0 .. MaxSends
  BY <1>1, <1>3 DEF ChannelAssumption
<1>5. Tail(chan.queue) \in Seq(1 .. MaxSends)
  BY HeadTailProperties DEF ChannelInv, Channel!TypeOK, Channel!ChannelType
<1>6. chan' = [c EXCEPT !.queue = Tail(chan.queue), !.got = chan.got + 1]
  BY <1>3 DEF Channel!TakeFirst, Channel!ChannelType
<1>7. /\ chan'.sent = chan.sent /\ chan'.got = chan.got + 1 /\ chan'.recv = "idle"
      /\ chan'.queue = Tail(chan.queue) /\ chan'.count = chan.count
      /\ chan'.senders = chan.senders /\ chan'.owned = chan.owned /\ chan'.permits = chan.permits
  BY <1>6 DEF Channel!ChannelType
<1>8. Channel!TypeOK'
  BY <1>4, <1>5, <1>6 DEF Channel!TypeOK, Channel!ChannelType
<1>9. SendersCounted'
  BY <1>7 DEF ChannelInv, SendersCounted, Able
<1>10. GotWasSent'
  BY <1>1, <1>3, <1>7 DEF GotWasSent
<1>11. chan'.queue = RunOf(chan'.got, chan'.sent)
  BY <1>3, <1>7
<1>12. Channel!InOrder' /\ ReceiverInv'
  BY <1>7, <1>11 DEF Channel!InOrder, RunOf, ReceiverInv
<1> QED BY <1>8, <1>9, <1>10, <1>12 DEF ChannelInv

LEMMA PollRecvKeeps ==
  ASSUME ChannelAssumption, ChannelInv, Channel!PollRecv
  PROVE  ChannelInv'
<1>1. CASE chan.queue # << >>
  <2> DEFINE c == [chan EXCEPT !.recv = "idle", !.woken = FALSE]
  <2>1. chan' = Channel!TakeFirst(c)
    BY <1>1 DEF Channel!PollRecv
  <2>2. /\ c \in Channel!ChannelType
        /\ c.queue = chan.queue /\ c.count = chan.count /\ c.recv = "idle"
        /\ c.sent = chan.sent /\ c.got = chan.got
        /\ c.senders = chan.senders /\ c.owned = chan.owned /\ c.permits = chan.permits
    BY DEF ChannelInv, Channel!TypeOK, Channel!ChannelType
  <2> HIDE DEF c
  <2> QED BY <1>1, <2>1, <2>2, TakeKeeps
<1>2. CASE chan.queue = << >>
  <2>1. Able \in SUBSET Senders
    BY DEF ChannelInv, Able, Channel!TypeOK, Channel!ChannelType
  <2>2. chan.count = 0 <=> Able = {}
    BY <2>1, SenderCounts DEF ChannelInv, SendersCounted
  <2>3. chan' = IF chan.count = 0 THEN [chan EXCEPT !.recv = "ended", !.woken = FALSE]
                ELSE [chan EXCEPT !.recv = "parked", !.waker = TRUE, !.woken = FALSE]
    BY <1>2 DEF Channel!PollRecv
  <2>4. /\ chan'.queue = chan.queue /\ chan'.sent = chan.sent /\ chan'.got = chan.got
        /\ chan'.count = chan.count /\ chan'.senders = chan.senders
        /\ chan'.owned = chan.owned /\ chan'.permits = chan.permits
        /\ IF chan.count = 0 THEN chan'.recv = "ended" ELSE chan'.recv = "parked" /\ chan'.waker
    BY <2>3 DEF ChannelInv, Channel!TypeOK, Channel!ChannelType
  <2>5. Channel!TypeOK'
    BY <2>3 DEF ChannelInv, Channel!TypeOK, Channel!ChannelType
  <2>6. SendersCounted' /\ GotWasSent'
    BY <2>4 DEF ChannelInv, SendersCounted, Able, GotWasSent
  <2>7. chan.got = chan.sent
    <3>1. chan.got \in Nat /\ chan.sent \in Nat /\ chan.got <= chan.sent
      BY DEF ChannelInv, Channel!TypeOK, Channel!ChannelType, GotWasSent
    <3>2. Len(RunOf(chan.got, chan.sent)) = 0
      BY <1>2, EmptySeq DEF ChannelInv, Channel!InOrder, RunOf
    <3>3. Len(RunOf(chan.got, chan.sent)) = chan.sent - chan.got
      BY <3>1, RunIsSeq
    <3> QED BY <3>1, <3>2, <3>3
  <2>8. Channel!InOrder'
    BY <2>2, <2>4, <2>7 DEF ChannelInv, Channel!InOrder, Able
  <2>9. ReceiverInv'
    BY <1>2, <2>2, <2>4 DEF ReceiverInv, Able
  <2> QED BY <2>5, <2>6, <2>8, <2>9 DEF ChannelInv
<1> QED BY <1>1, <1>2

LEMMA OtherRecvKeeps ==
  ASSUME ChannelInv, Channel!CancelRecv \/ Channel!Close \/ Channel!DropReceiver
  PROVE  ChannelInv'
<1>1. /\ chan'.queue = chan.queue /\ chan'.sent = chan.sent /\ chan'.got = chan.got
      /\ chan'.count = chan.count /\ chan'.senders = chan.senders
      /\ chan'.owned = chan.owned /\ chan'.permits = chan.permits
      /\ chan'.recv \in {"idle", "gone"}
  BY DEF ChannelInv, Channel!TypeOK, Channel!ChannelType, Channel!CancelRecv, Channel!Close, Channel!DropReceiver
<1>2. Channel!TypeOK'
  BY DEF ChannelInv, Channel!TypeOK, Channel!ChannelType, Channel!CancelRecv, Channel!Close, Channel!DropReceiver
<1>3. SendersCounted' /\ GotWasSent'
  BY <1>1 DEF ChannelInv, SendersCounted, Able, GotWasSent
<1>4. Channel!InOrder' /\ ReceiverInv'
  BY <1>1 DEF ChannelInv, Channel!InOrder, ReceiverInv
<1> QED BY <1>2, <1>3, <1>4 DEF ChannelInv

-----------------------------------------------------------------------------
(* One step per operation of a sender *)

LEMMA CloneKeeps ==
  ASSUME ChannelAssumption, ChannelInv, NEW s \in Senders, Channel!Clone(s)
  PROVE  ChannelInv'
<1>1. Able \in SUBSET Senders /\ s \in Senders \ Able
  BY DEF ChannelInv, Able, Channel!TypeOK, Channel!ChannelType, Channel!Clone
<1>2. chan.count = Cardinality(Able) /\ Cardinality(Able \cup {s}) = chan.count + 1
  BY <1>1, SenderCounts DEF ChannelInv, SendersCounted
<1>3. Able \cup {s} \in SUBSET Senders
  BY <1>1
<1>4. chan.count + 1 \in 0 .. Channel!Cardinality(Senders)
  BY <1>2, <1>3, SenderCounts
<1>5. /\ chan'.queue = chan.queue /\ chan'.sent = chan.sent /\ chan'.got = chan.got
      /\ chan'.recv = chan.recv /\ chan'.woken = chan.woken /\ chan'.waker = chan.waker
      /\ chan'.count = chan.count + 1 /\ chan'.senders = chan.senders \cup {s}
      /\ chan'.owned = chan.owned /\ chan'.permits = chan.permits
  BY DEF ChannelInv, Channel!TypeOK, Channel!ChannelType, Channel!Clone
<1>6. Channel!TypeOK'
  BY <1>4 DEF ChannelInv, Channel!TypeOK, Channel!ChannelType, Channel!Clone
<1>7. chan'.senders \cup chan'.owned = Able \cup {s}
  BY <1>5 DEF Able
<1>8. SendersCounted' /\ GotWasSent'
  BY <1>1, <1>2, <1>5, <1>7 DEF ChannelInv, SendersCounted, Able, GotWasSent
<1>9. Channel!InOrder'
  <2>1. chan.recv # "ended"
    BY DEF ChannelInv, Channel!InOrder, Channel!Clone
  <2> QED BY <1>5, <2>1 DEF ChannelInv, Channel!InOrder
<1>10. ReceiverInv'
  BY <1>5, <1>7 DEF ChannelInv, ReceiverInv, Able
<1> QED BY <1>6, <1>8, <1>9, <1>10 DEF ChannelInv

LEMMA SenderKeeps ==
  ASSUME ChannelAssumption, ChannelInv, NEW s \in Senders,
         \/ Channel!Send(s) \/ Channel!Clone(s) \/ Channel!DropSender(s)
         \/ Channel!Reserve(s) \/ Channel!PermitSend(s) \/ Channel!PermitDrop(s)
         \/ Channel!ReserveOwned(s) \/ Channel!OwnedSend(s) \/ Channel!OwnedRelease(s) \/ Channel!OwnedDrop(s)
  PROVE  ChannelInv'
<1>0. chan \in Channel!ChannelType /\ chan.permits \subseteq chan.senders
      /\ chan.senders \cap chan.owned = {}
  BY DEF ChannelInv, Channel!TypeOK, SendersCounted
<1>1. CASE Channel!Send(s)
  BY <1>1, Shuffles, AcceptKeeps DEF Channel!Send, Able
<1>2. CASE Channel!PermitSend(s)
  <2>1. s \in chan.permits /\ chan.sent < MaxSends /\ Able # {}
    BY <1>0, <1>2 DEF Channel!PermitSend, Able
  <2> QED BY <1>2, <2>1, Shuffles, AcceptKeeps DEF Channel!PermitSend
<1>3. CASE Channel!OwnedSend(s)
  <2>1. s \in chan.owned /\ chan.sent < MaxSends /\ Able # {}
    BY <1>3 DEF Channel!OwnedSend, Able
  <2> QED BY <1>3, <2>1, Shuffles, AcceptKeeps DEF Channel!OwnedSend
<1>4. CASE Channel!Reserve(s)
  BY <1>4, Shuffles, SamePeopleKeep DEF Channel!Reserve
<1>5. CASE Channel!PermitDrop(s)
  BY <1>5, Shuffles, SamePeopleKeep DEF Channel!PermitDrop
<1>6. CASE Channel!OwnedRelease(s)
  BY <1>6, Shuffles, SamePeopleKeep DEF Channel!OwnedRelease
<1>7. CASE Channel!Clone(s)
  BY <1>7, CloneKeeps
<1>8. CASE s \in chan.senders \ chan.permits /\ chan' = Channel!Leave([chan EXCEPT !.senders = @ \ {s}])
  <2> DEFINE c == [chan EXCEPT !.senders = @ \ {s}]
  <2>1. /\ c \in Channel!ChannelType
        /\ c.queue = chan.queue /\ c.count = chan.count /\ c.recv = chan.recv
        /\ c.sent = chan.sent /\ c.got = chan.got /\ c.woken = chan.woken /\ c.waker = chan.waker
        /\ c.senders = chan.senders \ {s} /\ c.owned = chan.owned \ {s} /\ c.permits = chan.permits
    BY <1>0, <1>8 DEF Channel!ChannelType
  <2>2. chan' = Channel!Leave(c) /\ s \in Able /\ s \notin chan.permits
    BY <1>8 DEF Able
  <2> HIDE DEF c
  <2> QED BY <2>1, <2>2, LeaveKeeps
<1>9. CASE Channel!OwnedDrop(s)
  <2> DEFINE c == [chan EXCEPT !.owned = @ \ {s}]
  <2>1. /\ c \in Channel!ChannelType
        /\ c.queue = chan.queue /\ c.count = chan.count /\ c.recv = chan.recv
        /\ c.sent = chan.sent /\ c.got = chan.got /\ c.woken = chan.woken /\ c.waker = chan.waker
        /\ c.senders = chan.senders \ {s} /\ c.owned = chan.owned \ {s} /\ c.permits = chan.permits
    BY <1>0, <1>9 DEF Channel!ChannelType, Channel!OwnedDrop
  <2>2. chan' = Channel!Leave(c) /\ s \in Able /\ s \notin chan.permits
    BY <1>0, <1>9 DEF Able, Channel!OwnedDrop
  <2> HIDE DEF c
  <2> QED BY <2>1, <2>2, LeaveKeeps
<1>10. CASE Channel!DropSender(s)
  BY <1>8, <1>10 DEF Channel!DropSender
<1>11. CASE Channel!ReserveOwned(s)
  <2>1. s \in chan.senders \ chan.permits
    BY <1>11 DEF Channel!ReserveOwned
  <2>2. CASE chan.alive
    BY <1>11, <2>1, <2>2, Shuffles, SamePeopleKeep DEF Channel!ReserveOwned
  <2>3. CASE ~chan.alive
    BY <1>8, <1>11, <2>1, <2>3 DEF Channel!ReserveOwned
  <2> QED BY <2>2, <2>3
<1> QED BY <1>1, <1>2, <1>3, <1>4, <1>5, <1>6, <1>7, <1>9, <1>10, <1>11

LEMMA ChannelInit == ASSUME ChannelAssumption, Channel!Init PROVE ChannelInv
<1>1. PICK s \in Senders, b \in BOOLEAN : chan = Channel!NewChannel(b, s)
  BY DEF Channel!Init, Channel!NewUnbounded
<1>2. Cardinality({s}) = 1 /\ 1 \in 0 .. Channel!Cardinality(Senders)
  <2>1. Cardinality({s}) = 1
    BY FS_Singleton
  <2>2. Cardinality({s}) \in 0 .. Channel!Cardinality(Senders)
    BY SenderCounts
  <2> QED BY <2>1, <2>2
<1>3. << >> \in Seq(1 .. MaxSends) /\ 0 \in 0 .. MaxSends
  BY EmptySeq DEF ChannelAssumption
<1>4. Channel!TypeOK
  BY <1>1, <1>2, <1>3 DEF Channel!TypeOK, Channel!ChannelType, Channel!NewChannel
<1>5. SendersCounted /\ GotWasSent /\ ReceiverInv
  BY <1>1, <1>2 DEF SendersCounted, Able, GotWasSent, ReceiverInv, Channel!NewChannel
<1>6. chan.queue = << >> /\ chan.sent = 0 /\ chan.got = 0 /\ chan.recv # "ended"
  BY <1>1 DEF Channel!NewChannel
<1>7. Channel!InOrder
  <2>1. RunOf(0, 0) = << >>
    <3>1. RunOf(0, 0) \in Seq(Nat) /\ Len(RunOf(0, 0)) = 0
      BY RunIsSeq
    <3> QED BY <3>1, EmptySeq
  <2> QED BY <2>1, <1>6 DEF Channel!InOrder, RunOf
<1> QED BY <1>4, <1>5, <1>7 DEF ChannelInv

LEMMA ChannelShows == ASSUME ChannelInv PROVE Channel!ReceiverWaitsForSomething
<1>1. Able = chan.senders \cup chan.owned
  BY DEF Able
<1>2. ASSUME Channel!ReceiverWaits
      PROVE  /\ chan.waker /\ chan.queue = << >>
             /\ Channel!CanSend # {} \/ (~chan.alive /\ chan.senders # {})
  <2>1. chan.waker /\ chan.queue = << >> /\ Able # {}
    BY <1>2 DEF ChannelInv, ReceiverInv, Channel!ReceiverWaits
  <2>2. CASE chan.alive
    BY <1>1, <2>1, <2>2 DEF Channel!CanSend
  <2>3. CASE ~chan.alive
    BY <1>1, <2>1, <2>3 DEF Channel!CanSend
  <2> QED BY <2>2, <2>3
<1> QED BY <1>2 DEF Channel!ReceiverWaitsForSomething

LEMMA ChannelNext == ASSUME ChannelAssumption, ChannelInv, [Channel!Next]_chan PROVE ChannelInv'
<1>1. CASE Channel!PollRecv
  BY <1>1, PollRecvKeeps
<1>2. CASE Channel!TryRecv
  <2>1. /\ chan \in Channel!ChannelType /\ chan.recv = "idle" /\ chan.queue # << >>
        /\ chan' = Channel!TakeFirst(chan)
    BY <1>2 DEF Channel!TryRecv, ChannelInv, Channel!TypeOK
  <2> QED BY <2>1, TakeKeeps
<1>3. CASE Channel!CancelRecv \/ Channel!Close \/ Channel!DropReceiver
  BY <1>3, OtherRecvKeeps
<1>4. CASE UNCHANGED chan
  BY <1>4 DEF ChannelInv, Channel!TypeOK, SendersCounted, Able, GotWasSent, Channel!InOrder, ReceiverInv
<1> QED BY <1>1, <1>2, <1>3, <1>4, SenderKeeps DEF Channel!Next

-----------------------------------------------------------------------------
(* Oneshot *)

(* A sender is there until it is dropped, and what it sent stays for as    *)
(* long as the receiver has not taken it.                                  *)
OnceFacts ==
  /\ once.sender_alive <=> once.tx # "gone"
  /\ once.tx = "held" => ~once.wasSent
  /\ once.tx = "sent" => once.wasSent
  /\ once.value => once.wasSent
  /\ once.rx = "err" => once.tx = "gone"
  /\ once.rx = "ok" => ~once.value /\ once.wasSent
  /\ once.rx \in {"new", "parked"} => once.value = once.wasSent

OnceInv == Once!TypeOK /\ OnceFacts /\ Once!SentIsDelivered

LEMMA OnceInit == ASSUME Once!Init PROVE OnceInv
BY DEF Once!Init, OnceInv, Once!TypeOK, Once!OnceType, OnceFacts, Once!SentIsDelivered

LEMMA OnceNext == ASSUME OnceInv, [Once!Next]_once PROVE OnceInv'
<1> USE DEF OnceInv, Once!TypeOK, Once!OnceType, OnceFacts, Once!SentIsDelivered
<1>1. CASE Once!Send
  BY <1>1 DEF Once!Send, Once!Wake
<1>2. CASE Once!DropSender
  BY <1>2 DEF Once!DropSender, Once!Wake
<1>3. CASE Once!Poll
  BY <1>3 DEF Once!Poll, Once!Outcome
<1>4. CASE Once!DropReceiver
  BY <1>4 DEF Once!DropReceiver
<1>5. CASE UNCHANGED once
  BY <1>5
<1> QED BY <1>1, <1>2, <1>3, <1>4, <1>5 DEF Once!Next

-----------------------------------------------------------------------------
(* Watch *)

(* Nobody has seen or marked a version that is yet to come. *)
WatchFacts ==
  \A r \in Receivers : watch.seen[r] <= watch.version /\ watch.marked[r] <= watch.version

WatchInv == Watching!TypeOK /\ WatchFacts /\ Watching!LastValueIsSeen

LEMMA WatchInit == ASSUME Watching!Init PROVE WatchInv
BY LibraryAssumption DEF Watching!Init, WatchInv, Watching!TypeOK, Watching!WatchType, WatchFacts, Watching!LastValueIsSeen,
  Watching!Versions, Watching!WatchAssumption

LEMMA WatchNext == ASSUME WatchInv, [Watching!Next]_watch PROVE WatchInv'
<1>1. MaxVersion \in Nat \ {0}
  BY LibraryAssumption DEF Watching!WatchAssumption
<1> USE <1>1 DEF WatchInv, Watching!TypeOK, Watching!WatchType, WatchFacts, Watching!LastValueIsSeen,
  Watching!Versions
<1>2. PICK h : h = watch'
  OBVIOUS
<1>3. CASE Watching!Send \/ Watching!DropSender
  <2>1. /\ h \in Watching!WatchType /\ h.version \in {watch.version, watch.version + 1}
        /\ h.waiters = {} /\ h.woken = watch.woken \cup watch.waiters
        /\ h.at = watch.at /\ h.seen = watch.seen /\ h.marked = watch.marked /\ h.read = watch.read
        /\ ~watch.closed
    <3>1. CASE Watching!Send
      <4>1. watch.version + 1 \in Watching!Versions \ {0}
        BY <3>1 DEF Watching!Send
      <4>2. watch' = [watch EXCEPT !.version = watch.version + 1, !.woken = @ \cup watch.waiters, !.waiters = {}]
        BY <3>1 DEF Watching!Send, Watching!WakeAll
      <4> QED BY <1>2, <3>1, <4>1, <4>2 DEF Watching!Send
    <3>2. CASE Watching!DropSender
      <4>1. watch' = [watch EXCEPT !.closed = TRUE, !.woken = @ \cup watch.waiters, !.waiters = {}]
        BY <3>2 DEF Watching!DropSender, Watching!WakeAll
      <4> QED BY <1>2, <3>2, <4>1 DEF Watching!DropSender
    <3> QED BY <1>3, <3>1, <3>2
  <2> QED BY <1>2, <2>1
<1>4. ASSUME NEW r \in Receivers, NEW v \in {watch.version} \cup {watch.seen[q] : q \in Receivers},
             watch.at[r] = "none", watch' = Watching!Join(r, v)
      PROVE  WatchInv'
  <2>1. v \in Watching!Versions /\ v <= watch.version
    BY <1>4
  <2>2. /\ h \in Watching!WatchType /\ h.version = watch.version
        /\ h.waiters = watch.waiters /\ h.woken = watch.woken /\ h.closed = watch.closed
        /\ h.at = [watch.at EXCEPT ![r] = "idle"] /\ h.seen = [watch.seen EXCEPT ![r] = v]
        /\ h.marked = watch.marked /\ h.read = watch.read
    BY <1>2, <1>4, <2>1 DEF Watching!Join
  <2> QED BY <1>2, <1>4, <2>1, <2>2
<1>5. ASSUME NEW r \in Receivers, Watching!Changed(r) PROVE WatchInv'
  <2>1. CASE watch.version # watch.seen[r]
    <3>1. watch' = [watch EXCEPT !.woken = @ \ {r}, !.at[r] = "idle", !.seen[r] = watch.version]
      BY <1>5, <2>1 DEF Watching!Changed, Watching!Polled
    <3>2. /\ h \in Watching!WatchType /\ h.version = watch.version
          /\ h.waiters = watch.waiters /\ h.woken = watch.woken \ {r} /\ h.closed = watch.closed
          /\ h.at = [watch.at EXCEPT ![r] = "idle"] /\ h.seen = [watch.seen EXCEPT ![r] = watch.version]
          /\ h.marked = watch.marked /\ h.read = watch.read
      BY <1>2, <3>1
    <3>3. watch.at[r] \in {"idle", "parked"}
      BY <1>5 DEF Watching!Changed
    <3> QED BY <1>2, <3>2, <3>3
  <2>2. CASE watch.version = watch.seen[r]
    <3>1. watch' = IF watch.closed THEN [watch EXCEPT !.woken = @ \ {r}, !.at[r] = "err"]
                   ELSE [watch EXCEPT !.woken = @ \ {r}, !.at[r] = "parked", !.waiters = @ \cup {r}]
      BY <1>5, <2>2 DEF Watching!Changed, Watching!Polled
    <3>2. /\ h \in Watching!WatchType /\ h.version = watch.version
          /\ h.waiters = IF watch.closed THEN watch.waiters ELSE watch.waiters \cup {r}
          /\ h.woken = watch.woken \ {r} /\ h.closed = watch.closed
          /\ h.at = [watch.at EXCEPT ![r] = IF watch.closed THEN "err" ELSE "parked"]
          /\ h.seen = watch.seen /\ h.marked = watch.marked /\ h.read = watch.read
      BY <1>2, <3>1
    <3>3. watch.at[r] \in {"idle", "parked"}
      BY <1>5 DEF Watching!Changed
    <3> QED BY <1>2, <2>2, <3>2, <3>3
  <2> QED BY <2>1, <2>2
<1>6. ASSUME NEW r \in Receivers, Watching!Cancel(r) PROVE WatchInv'
  BY <1>6 DEF Watching!Cancel
<1>7. ASSUME NEW r \in Receivers, Watching!BeginUpdate(r) PROVE WatchInv'
  <2>1. /\ h \in Watching!WatchType /\ h.version = watch.version /\ watch.at[r] = "idle"
        /\ h.waiters = watch.waiters /\ h.woken = watch.woken /\ h.closed = watch.closed
        /\ h.at = [watch.at EXCEPT ![r] = "updating"]
        /\ h.seen = [watch.seen EXCEPT ![r] = watch.version]
        /\ h.marked = [watch.marked EXCEPT ![r] = watch.version] /\ h.read = watch.read
    BY <1>2, <1>7 DEF Watching!BeginUpdate
  <2> QED BY <1>2, <2>1
<1>8. ASSUME NEW r \in Receivers, Watching!Deref(r) PROVE WatchInv'
  BY <1>8 DEF Watching!Deref
<1>9. CASE UNCHANGED watch
  BY <1>9
<1>10. ASSUME NEW r \in Receivers, Watching!Subscribe(r) PROVE WatchInv'
  BY <1>4, <1>10 DEF Watching!Subscribe
<1>11. ASSUME NEW r \in Receivers, NEW q \in Receivers, Watching!Clone(r, q) PROVE WatchInv'
  BY <1>4, <1>11 DEF Watching!Clone
<1> QED BY <1>3, <1>5, <1>6, <1>7, <1>8, <1>9, <1>10, <1>11 DEF Watching!Next

-----------------------------------------------------------------------------
(* Notify *)

NotifyInv == Notifying!TypeOK /\ Notifying!PassesAreAnnounced

LEMMA NotifyIs ==
  /\ IsFiniteSet(Waiters) /\ MaxNotifications \in Nat
  /\ \A S : Notifying!Cardinality(S) = Cardinality(S)
  /\ \A s : Notifying!Front(s) = Front(s) /\ Notifying!Last(s) = Last(s) /\ Notifying!Range(s) = Range(s)
<1>1. \A S : Notifying!IsFiniteSet(S) <=> IsFiniteSet(S)
  BY DEF Notifying!IsFiniteSet, IsFiniteSet
<1>2. \A S : Notifying!Cardinality(S) = Cardinality(S)
  BY DEF Notifying!Cardinality, Cardinality
<1>3. \A s : Notifying!Front(s) = Front(s) /\ Notifying!Last(s) = Last(s) /\ Notifying!Range(s) = Range(s)
  BY DEF Notifying!Front, Front, Notifying!Last, Last, Notifying!Range, Range
<1> QED BY <1>1, <1>2, <1>3, LibraryAssumption DEF Notifying!NotifyAssumption

(* However many notify_waiters tells, it lets one pass at least. *)
LEMMA OneAtLeast ==
  ASSUME NEW n \in Nat
  PROVE  Notifying!Max({1, n}) \in Nat /\ Notifying!Max({1, n}) >= 1
<1>1. \E x \in {1, n} : \A y \in {1, n} : x >= y
  <2>1. CASE n >= 1
    BY <2>1
  <2>2. CASE ~(n >= 1)
    BY <2>2
  <2> QED BY <2>1, <2>2
<1>2. Notifying!Max({1, n}) \in {1, n} /\ \A y \in {1, n} : Notifying!Max({1, n}) >= y
  BY <1>1 DEF Notifying!Max
<1> QED BY <1>2

LEMMA NotifyInit == ASSUME Notifying!Init PROVE NotifyInv
<1>1. Notifying!TypeOK
  BY NotifyIs, EmptySeq DEF Notifying!Init, Notifying!TypeOK, Notifying!NotifyType
<1>2. Notifying!Done = {}
  BY DEF Notifying!Init, Notifying!Done
<1>3. Cardinality({}) = 0
  BY FS_EmptySet
<1>4. ntf.passes = 0 /\ ~ntf.notified
  BY DEF Notifying!Init
<1> QED BY <1>1, <1>2, <1>3, <1>4, NotifyIs DEF NotifyInv, Notifying!PassesAreAnnounced

LEMMA NotifyNext == ASSUME NotifyInv, [Notifying!Next]_ntf PROVE NotifyInv'
<1>1. /\ ntf \in Notifying!NotifyType /\ MaxNotifications \in Nat
      /\ ntf.calls \in 0 .. MaxNotifications /\ ntf.waiters \in Seq(Waiters) /\ ntf.notified \in BOOLEAN
      /\ ntf.woken \in SUBSET Waiters /\ ntf.passes \in Nat /\ ntf.told \in SUBSET Waiters
  BY NotifyIs DEF NotifyInv, Notifying!TypeOK, Notifying!NotifyType
<1>2. PICK h : h = ntf'
  OBVIOUS
<1> DEFINE done(n) == {w \in Waiters : n.at[w] = "done"}
           fair(n)  == Cardinality(done(n)) + (IF n.notified THEN 1 ELSE 0) <= n.passes
<1>3. Cardinality(done(ntf)) \in Nat /\ fair(ntf)
  <2>1. done(ntf) \in SUBSET Waiters
    OBVIOUS
  <2> QED BY <2>1, NotifyIs, OneMore DEF NotifyInv, Notifying!PassesAreAnnounced, Notifying!Done
<1>4. ASSUME h \in Notifying!NotifyType, fair(h) PROVE NotifyInv'
  <2>1. Notifying!Done' = done(h)
    BY <1>2 DEF Notifying!Done
  <2> QED BY <1>2, <1>4, <2>1, NotifyIs DEF NotifyInv, Notifying!TypeOK, Notifying!PassesAreAnnounced
<1>5. CASE Notifying!NotifyOne
  <2>1. ntf.calls + 1 \in 0 .. MaxNotifications
    BY <1>1, <1>5 DEF Notifying!NotifyOne
  <2>4. ntf.passes + 1 \in Nat
    BY <1>1
  <2>2. CASE ntf.waiters = << >>
    <3>1. h = [ntf EXCEPT !.calls = ntf.calls + 1, !.passes = ntf.passes + 1, !.notified = TRUE]
      BY <1>2, <1>5, <2>2 DEF Notifying!NotifyOne
    <3>2. h \in Notifying!NotifyType /\ h.at = ntf.at /\ h.notified /\ h.passes = ntf.passes + 1
      BY <1>1, <2>1, <2>4, <3>1 DEF Notifying!NotifyType
    <3> QED BY <1>1, <1>3, <1>4, <3>2
  <2>3. CASE ntf.waiters # << >>
    <3>1. Front(ntf.waiters) \in Seq(Waiters) /\ ntf.woken \cup {Last(ntf.waiters)} \in SUBSET Waiters
      BY <1>1, <2>3, FrontAndLast
    <3>2. h = [ntf EXCEPT !.calls = ntf.calls + 1, !.passes = ntf.passes + 1, !.waiters = Front(ntf.waiters),
                          !.woken = ntf.woken \cup {Last(ntf.waiters)}]
      BY <1>2, <1>5, <2>3, NotifyIs DEF Notifying!NotifyOne
    <3>3. h \in Notifying!NotifyType /\ h.at = ntf.at /\ h.notified = ntf.notified /\ h.passes = ntf.passes + 1
      BY <1>1, <2>1, <2>4, <3>1, <3>2 DEF Notifying!NotifyType
    <3> QED BY <1>1, <1>3, <1>4, <3>3
  <2> QED BY <2>2, <2>3
<1>6. CASE Notifying!NotifyWaiters
  <2>1. ntf.calls + 1 \in 0 .. MaxNotifications
    BY <1>1, <1>6 DEF Notifying!NotifyWaiters
  <2>2. ntf.woken \cup Range(ntf.waiters) \in SUBSET Waiters /\ << >> \in Seq(Waiters)
    BY <1>1, InRange, EmptySeq
  <2>3. Notifying!Waiting \in SUBSET Waiters
    BY DEF Notifying!Waiting
  <2>4. PICK k : k = Notifying!Max({1, Cardinality(Notifying!Waiting)})
    OBVIOUS
  <2>5. k \in Nat /\ k >= 1
    BY <2>3, <2>4, NotifyIs, OneMore, OneAtLeast
  <2>6. PICK told : told = ntf.told \cup (Notifying!Waiting \cap Range(ntf.waiters))
    OBVIOUS
  <2>7. told \in SUBSET Waiters
    BY <1>1, <2>3, <2>6
  <2>8. h = [ntf EXCEPT !.calls = ntf.calls + 1, !.notified = TRUE,
                        !.woken = ntf.woken \cup Range(ntf.waiters), !.waiters = << >>,
                        !.passes = ntf.passes + k, !.told = told]
    BY <1>2, <1>6, <2>4, <2>6, NotifyIs DEF Notifying!NotifyWaiters
  <2>9. h \in Notifying!NotifyType /\ h.at = ntf.at /\ h.notified /\ h.passes = ntf.passes + k
    <3>1. ntf.passes + k \in Nat
      BY <1>1, <2>5
    <3>2. PICK calls, passes, woken :
            calls = ntf.calls + 1 /\ passes = ntf.passes + k /\ woken = ntf.woken \cup Range(ntf.waiters)
      OBVIOUS
    <3> QED BY <1>1, <2>1, <2>2, <2>7, <2>8, <3>1, <3>2 DEF Notifying!NotifyType
  <2> QED BY <1>1, <1>3, <1>4, <2>5, <2>9
<1>7. ASSUME NEW w \in Waiters, Notifying!Poll(w) PROVE NotifyInv'
  <2>1. ntf.at[w] \in {"new", "registered"}
    BY <1>7 DEF Notifying!Poll
  <2>2. CASE ntf.notified
    <3>1. h = [ntf EXCEPT !.woken = ntf.woken \ {w}, !.notified = FALSE, !.at = [ntf.at EXCEPT ![w] = "done"]]
      BY <1>2, <1>7, <2>2 DEF Notifying!Poll, Notifying!Complete
    <3>2. /\ h \in Notifying!NotifyType /\ h.at = [ntf.at EXCEPT ![w] = "done"]
          /\ ~h.notified /\ h.passes = ntf.passes
      BY <1>1, <3>1 DEF Notifying!NotifyType
    <3>3. done(h) = done(ntf) \cup {w} /\ w \notin done(ntf)
      BY <1>1, <2>1, <3>2 DEF Notifying!NotifyType
    <3>4. Cardinality(done(h)) = Cardinality(done(ntf)) + 1
      <4>1. done(ntf) \in SUBSET Waiters
        OBVIOUS
      <4> HIDE DEF done
      <4> QED BY <3>3, <4>1, NotifyIs, OneMore
    <3> QED BY <1>1, <1>3, <1>4, <2>2, <3>2, <3>4
  <2>3. CASE ~ntf.notified
    <3>1. Append(ntf.waiters, w) \in Seq(Waiters)
      BY <1>1, AppendProperties
    <3>2. h = [ntf EXCEPT !.woken = ntf.woken \ {w}]
          \/ h = [ntf EXCEPT !.woken = ntf.woken \ {w}, !.at = [ntf.at EXCEPT ![w] = "registered"],
                             !.waiters = Append(ntf.waiters, w)]
      BY <1>2, <1>7, <2>3 DEF Notifying!Poll
    <3>3. /\ h \in Notifying!NotifyType /\ h.at \in {ntf.at, [ntf.at EXCEPT ![w] = "registered"]}
          /\ h.notified = ntf.notified /\ h.passes = ntf.passes
      <4>1. CASE h = [ntf EXCEPT !.woken = ntf.woken \ {w}]
        BY <1>1, <4>1 DEF Notifying!NotifyType
      <4>2. CASE h = [ntf EXCEPT !.woken = ntf.woken \ {w}, !.at = [ntf.at EXCEPT ![w] = "registered"],
                                 !.waiters = Append(ntf.waiters, w)]
        BY <1>1, <3>1, <4>2 DEF Notifying!NotifyType
      <4> QED BY <3>2, <4>1, <4>2
    <3>4. done(h) = done(ntf)
      BY <1>1, <2>1, <3>3 DEF Notifying!NotifyType
    <3> QED BY <1>1, <1>3, <1>4, <3>3, <3>4
  <2> QED BY <2>2, <2>3
<1>8. ASSUME NEW w \in Waiters, Notifying!Drop(w) PROVE NotifyInv'
  <2>1. /\ h \in Notifying!NotifyType /\ h.at = [ntf.at EXCEPT ![w] = "dropped"]
        /\ h.notified = ntf.notified /\ h.passes = ntf.passes /\ ntf.at[w] = "registered"
    BY <1>1, <1>2, <1>8 DEF Notifying!Drop, Notifying!NotifyType
  <2>2. done(h) = done(ntf)
    BY <1>1, <2>1 DEF Notifying!NotifyType
  <2> QED BY <1>3, <1>4, <2>1, <2>2
<1>9. CASE UNCHANGED ntf
  BY <1>9 DEF NotifyInv, Notifying!TypeOK, Notifying!PassesAreAnnounced, Notifying!Done
<1> QED BY <1>5, <1>6, <1>7, <1>8, <1>9 DEF Notifying!Next

-----------------------------------------------------------------------------
(* Semaphore *)

(* A user is in the stack once, and holds no permit while it is there. *)
SpinsOnce(s) ==
  /\ \A i, j \in 1 .. Len(s.stack) : s.stack[i] = s.stack[j] => i = j
  /\ \A i \in 1 .. Len(s.stack) : s.holds[s.stack[i]] = 0

Conserved(s) == s.available + SumFunction(s.holds) = Permits + s.added

SemaphoreGood(s) == s \in Acquiring!SemaphoreType /\ SpinsOnce(s) /\ Conserved(s)

SemaphoreInv == SemaphoreGood(sem)

LEMMA SemaphoreIs ==
  /\ IsFiniteSet(Users) /\ Permits \in Nat /\ Wants \in [Users -> Nat \ {0}] /\ MaxAdded \in Nat
  /\ \A s : Acquiring!Front(s) = Front(s) /\ Acquiring!Last(s) = Last(s) /\ Acquiring!Range(s) = Range(s)
  /\ \A f : Acquiring!SumFunction(f) = SumFunction(f)
<1>1. \A S : Acquiring!IsFiniteSet(S) <=> IsFiniteSet(S)
  BY DEF Acquiring!IsFiniteSet, IsFiniteSet
<1>2. \A s : Acquiring!Front(s) = Front(s) /\ Acquiring!Last(s) = Last(s) /\ Acquiring!Range(s) = Range(s)
  BY DEF Acquiring!Front, Front, Acquiring!Last, Last, Acquiring!Range, Range
<1>3. \A f : Acquiring!SumFunction(f) = SumFunction(f)
  BY DEF Acquiring!SumFunction, Acquiring!SumFunctionOnSet, Acquiring!FoldFunctionOnSet, Acquiring!MapThenFoldSet,
         SumFunction, SumFunctionOnSet, FoldFunctionOnSet, MapThenFoldSet
<1> QED BY <1>1, <1>2, <1>3, LibraryAssumption DEF Acquiring!SemaphoreAssumption

LEMMA SemaphoreConserves == ASSUME SemaphoreInv PROVE Acquiring!TypeOK /\ Acquiring!PermitsConserved
BY SemaphoreIs DEF SemaphoreInv, SemaphoreGood, Conserved, Acquiring!TypeOK, Acquiring!PermitsConserved

LEMMA SemaphoreInit == ASSUME Acquiring!Init PROVE SemaphoreInv
<1>1. sem \in Acquiring!SemaphoreType
  BY SemaphoreIs, EmptySeq DEF Acquiring!Init, Acquiring!SemaphoreType
<1>2. SpinsOnce(sem)
  BY EmptySeq DEF Acquiring!Init, SpinsOnce
<1>3. Conserved(sem)
  <2>1. SumFunction([u \in Users |-> 0]) = 0
    BY SemaphoreIs, SumOfNothing
  <2> QED BY <2>1, SemaphoreIs DEF Acquiring!Init, Conserved
<1> QED BY <1>1, <1>2, <1>3 DEF SemaphoreInv, SemaphoreGood

(* A user that does not spin comes to hold v permits, which leaves a. *)
Moved(s, u, v, a) ==
  IF a + v = s.available + s.holds[u] /\ \A i \in 1 .. Len(s.stack) : s.stack[i] # u
  THEN [s EXCEPT !.available = a, !.holds = [s.holds EXCEPT ![u] = v]] ELSE s

LEMMA Balance ==
  ASSUME NEW k \in Nat, NEW x \in Nat, NEW p \in Nat, NEW w \in Nat, NEW a \in Nat, NEW v \in Nat,
         NEW z \in Nat, NEW y \in Nat, k + x = p + w, a + v = k + z, y + z = x + v
  PROVE  a + y = p + w
OBVIOUS

LEMMA HoldsMove ==
  ASSUME NEW f, NEW u \in Users, NEW v \in Nat, f \in [Users -> Nat]
  PROVE  \E x, y \in Nat : /\ x = SumFunction(f) /\ y = SumFunction([f EXCEPT ![u] = v])
                           /\ y + f[u] = x + v
<1> DEFINE k == [f EXCEPT ![u] = v]
<1>1. IsFiniteSet(Users) /\ k \in [Users -> Nat] /\ \A x \in Users : k[x] = IF x = u THEN v ELSE f[x]
  BY SemaphoreIs
<1> HIDE DEF k
<1>2. \E x, y \in Nat : x = SumFunction(f) /\ y = SumFunction(k) /\ y + f[u] = x + v
  BY <1>1, SumChanges
<1> QED BY <1>2 DEF k

LEMMA PermitsMove ==
  ASSUME NEW s, SemaphoreGood(s), NEW u \in Users, NEW v \in Nat, NEW a \in Nat
  PROVE  SemaphoreGood(Moved(s, u, v, a))
<1> DEFINE Apart == \A i \in 1 .. Len(s.stack) : s.stack[i] # u
           Even == a + v = s.available + s.holds[u]
<1>0. CASE ~(Even /\ Apart)
  BY <1>0 DEF Moved
<1>1. CASE Even /\ Apart
  <2> DEFINE f == s.holds
             new == [f EXCEPT ![u] = v]
  <2>1. s.holds \in [Users -> Nat] /\ s.available \in Nat /\ s.added \in Nat /\ Permits \in Nat
        /\ s.stack \in Seq(Users)
    BY SemaphoreIs DEF SemaphoreGood, Acquiring!SemaphoreType
  <2>2. PICK t : t = Moved(s, u, v, a)
    OBVIOUS
  <2>3. /\ t \in Acquiring!SemaphoreType /\ t.stack = s.stack /\ t.added = s.added
        /\ t.available = a /\ t.holds = new
    BY <1>1, <2>1, <2>2 DEF SemaphoreGood, Acquiring!SemaphoreType, Moved
  <2>4. new \in [Users -> Nat] /\ \A x \in Users : new[x] = IF x = u THEN v ELSE f[x]
    BY <2>1
  <2>21. f \in [Users -> Nat]
    BY <2>1
  <2>22. \E x, y \in Nat : x = SumFunction(f) /\ y = SumFunction(new) /\ y + f[u] = x + v
    <3> HIDE DEF f
    <3> QED BY <2>21, HoldsMove
  <2>5. PICK x, y \in Nat : x = SumFunction(f) /\ y = SumFunction(new) /\ y + f[u] = x + v
    BY <2>22
  <2>6. PICK k, z, w, p : k = s.available /\ z = f[u] /\ w = s.added /\ p = Permits
    OBVIOUS
  <2>7. k \in Nat /\ z \in Nat /\ w \in Nat /\ p \in Nat
    BY <2>1, <2>6
  <2>8. k + x = p + w
    BY <2>5, <2>6 DEF SemaphoreGood, Conserved
  <2>9. a + v = k + z /\ y + z = x + v
    BY <1>1, <2>5, <2>6
  <2> HIDE DEF f, new, Apart, Even
  <2>10. a + y = p + w
    BY <2>7, <2>8, <2>9, Balance
  <2>11. Conserved(t)
    BY <2>3, <2>5, <2>6, <2>10 DEF Conserved
  <2>12. SpinsOnce(t)
    <3>1. \A i \in 1 .. Len(s.stack) : s.stack[i] \in Users
      BY <2>1, ElementOfSeq
    <3> QED BY <1>1, <2>3, <2>4, <3>1 DEF SemaphoreGood, SpinsOnce, Apart, f
  <2> QED BY <2>2, <2>3, <2>11, <2>12 DEF SemaphoreGood
<1> QED BY <1>0, <1>1

(* The stack grows by one, or loses its last. *)
LEMMA StackMoves ==
  ASSUME NEW s, SemaphoreGood(s), NEW stack \in Seq(Users),
         \/ stack = Front(s.stack) /\ s.stack # << >>
         \/ \E u \in Users : /\ stack = Append(s.stack, u) /\ s.holds[u] = 0
                             /\ \A i \in 1 .. Len(s.stack) : s.stack[i] # u
  PROVE  SemaphoreGood([s EXCEPT !.stack = stack])
<1> DEFINE t == [s EXCEPT !.stack = stack]
<1>1. /\ t \in Acquiring!SemaphoreType /\ t.stack = stack /\ t.added = s.added
      /\ t.available = s.available /\ t.holds = s.holds /\ s.stack \in Seq(Users)
  BY DEF SemaphoreGood, Acquiring!SemaphoreType
<1> HIDE DEF t
<1>2. Conserved(t)
  BY <1>1 DEF SemaphoreGood, Conserved
<1>3. SpinsOnce(t)
  <2>1. CASE stack = Front(s.stack) /\ s.stack # << >>
    <3>1. /\ Len(stack) = Len(s.stack) - 1 /\ Len(s.stack) \in Nat
          /\ \A i \in 1 .. Len(s.stack) - 1 : stack[i] = s.stack[i]
      BY <1>1, <2>1, FrontAndLast
    <3>2. \A i \in 1 .. Len(stack) : i \in 1 .. Len(s.stack) /\ stack[i] = s.stack[i]
      BY <3>1
    <3> QED BY <1>1, <3>2 DEF SemaphoreGood, SpinsOnce
  <2>2. CASE \E u \in Users : /\ stack = Append(s.stack, u) /\ s.holds[u] = 0
                              /\ \A i \in 1 .. Len(s.stack) : s.stack[i] # u
    <3>1. PICK u \in Users : /\ stack = Append(s.stack, u) /\ s.holds[u] = 0
                             /\ \A i \in 1 .. Len(s.stack) : s.stack[i] # u
      BY <2>2
    <3>2. /\ Len(stack) = Len(s.stack) + 1 /\ Len(s.stack) \in Nat
          /\ \A i \in 1 .. Len(s.stack) : stack[i] = s.stack[i]
          /\ stack[Len(s.stack) + 1] = u
      BY <1>1, <3>1, AppendProperties, LenProperties
    <3>3. \A i \in 1 .. Len(stack) : \/ i \in 1 .. Len(s.stack) /\ stack[i] = s.stack[i]
                                     \/ i = Len(s.stack) + 1 /\ stack[i] = u
      BY <3>2
    <3>4. /\ \A i, j \in 1 .. Len(s.stack) : s.stack[i] = s.stack[j] => i = j
          /\ \A i \in 1 .. Len(s.stack) : s.holds[s.stack[i]] = 0
      BY DEF SemaphoreGood, SpinsOnce
    <3>5. \A i, j \in 1 .. Len(stack) : stack[i] = stack[j] => i = j
      BY <3>1, <3>3, <3>4
    <3>6. \A i \in 1 .. Len(stack) : s.holds[stack[i]] = 0
      BY <3>1, <3>3, <3>4
    <3> QED BY <1>1, <3>5, <3>6 DEF SpinsOnce
  <2> QED BY <2>1, <2>2
<1> QED BY <1>1, <1>2, <1>3 DEF SemaphoreGood, t

LEMMA SemaphoreNext == ASSUME SemaphoreInv, [Acquiring!Next]_sem PROVE SemaphoreInv'
<1>1. /\ SemaphoreGood(sem) /\ sem \in Acquiring!SemaphoreType /\ sem.available \in Nat
      /\ sem.stack \in Seq(Users) /\ sem.holds \in [Users -> Nat]
  BY DEF SemaphoreInv, SemaphoreGood, Acquiring!SemaphoreType
<1>2. \A u \in Users : Wants[u] \in Nat
  BY SemaphoreIs
<1>3. PICK h : h = sem'
  OBVIOUS
<1> SUFFICES SemaphoreGood(h)
  BY <1>3 DEF SemaphoreInv
<1>4. \A u \in Users : ~Acquiring!Spinning(u) <=> \A i \in 1 .. Len(sem.stack) : sem.stack[i] # u
  BY <1>1, SemaphoreIs, InRange DEF Acquiring!Spinning
(* A user that does not hold any takes what it asks for. *)
<1>5. ASSUME NEW s, SemaphoreGood(s), NEW u \in Users, s.holds[u] = 0, s.available >= Wants[u],
             \A i \in 1 .. Len(s.stack) : s.stack[i] # u
      PROVE  SemaphoreGood(Acquiring!Take(s, u))
  <2>1. s.available - Wants[u] \in Nat /\ (s.available - Wants[u]) + Wants[u] = s.available + s.holds[u]
    BY <1>2, <1>5 DEF SemaphoreGood, Acquiring!SemaphoreType
  <2>2. Acquiring!Take(s, u) = [s EXCEPT !.available = s.available - Wants[u],
                                         !.holds = [s.holds EXCEPT ![u] = Wants[u]]]
    BY <1>5 DEF Acquiring!Take, SemaphoreGood, Acquiring!SemaphoreType
  <2>3. SemaphoreGood(Moved(s, u, Wants[u], s.available - Wants[u]))
    BY <1>2, <1>5, <2>1, PermitsMove
  <2> QED BY <1>5, <2>1, <2>2, <2>3 DEF Moved
<1>6. ASSUME NEW u \in Users, Acquiring!TryAcquire(u) PROVE SemaphoreGood(h)
  BY <1>1, <1>3, <1>4, <1>5, <1>6 DEF Acquiring!TryAcquire, Acquiring!Enough
<1>7. ASSUME NEW u \in Users, Acquiring!Acquire(u) PROVE SemaphoreGood(h)
  <2>1. CASE Acquiring!Enough(u)
    BY <1>1, <1>3, <1>4, <1>5, <1>7, <2>1 DEF Acquiring!Acquire, Acquiring!Enough
  <2>2. CASE ~Acquiring!Enough(u)
    <3>1. h = [sem EXCEPT !.stack = Append(sem.stack, u)] /\ Append(sem.stack, u) \in Seq(Users)
      BY <1>1, <1>3, <1>7, <2>2, AppendProperties DEF Acquiring!Acquire
    <3>2. sem.holds[u] = 0 /\ \A i \in 1 .. Len(sem.stack) : sem.stack[i] # u
      BY <1>4, <1>7 DEF Acquiring!Acquire
    <3> QED BY <1>1, <3>1, <3>2, StackMoves
  <2> QED BY <2>1, <2>2
<1>8. CASE Acquiring!Retry
  <2> DEFINE u == Last(sem.stack)
             s == [sem EXCEPT !.stack = Front(sem.stack)]
  <2>1. /\ sem.stack # << >> /\ sem.available >= Wants[u] /\ h = Acquiring!Take(s, u)
    BY <1>1, <1>3, <1>8, SemaphoreIs DEF Acquiring!Retry, Acquiring!Enough
  <2>2. /\ Front(sem.stack) \in Seq(Users) /\ u \in Users /\ u = sem.stack[Len(sem.stack)]
        /\ Len(sem.stack) \in Nat \ {0} /\ Len(Front(sem.stack)) = Len(sem.stack) - 1
        /\ \A i \in 1 .. Len(sem.stack) - 1 : Front(sem.stack)[i] = sem.stack[i]
    BY <1>1, <2>1, FrontAndLast
  <2>3. SemaphoreGood(s)
    BY <1>1, <2>1, <2>2, StackMoves
  <2>4. s.holds = sem.holds /\ s.available = sem.available /\ s.stack = Front(sem.stack)
    BY <1>1 DEF Acquiring!SemaphoreType
  <2>5. \A i \in 1 .. Len(s.stack) : i \in 1 .. Len(sem.stack) /\ i # Len(sem.stack) /\ s.stack[i] = sem.stack[i]
    BY <2>2, <2>4
  <2>6. /\ Len(sem.stack) \in 1 .. Len(sem.stack) /\ sem.holds[u] = 0
        /\ \A i \in 1 .. Len(s.stack) : s.stack[i] # u
    BY <1>1, <2>2, <2>5 DEF SemaphoreGood, SpinsOnce
  <2> HIDE DEF u, s
  <2> QED BY <1>5, <2>1, <2>2, <2>3, <2>4, <2>6
<1>9. ASSUME NEW u \in Users, Acquiring!Release(u) PROVE SemaphoreGood(h)
  <2>1. h = [sem EXCEPT !.available = sem.available + sem.holds[u], !.holds = [sem.holds EXCEPT ![u] = 0]]
    BY <1>1, <1>3, <1>9 DEF Acquiring!Release, Acquiring!SemaphoreType
  <2>2. /\ \A i \in 1 .. Len(sem.stack) : sem.stack[i] # u
        /\ sem.available + sem.holds[u] \in Nat /\ 0 \in Nat
        /\ (sem.available + sem.holds[u]) + 0 = sem.available + sem.holds[u]
    BY <1>1, <1>4, <1>9 DEF Acquiring!Release
  <2>3. SemaphoreGood(Moved(sem, u, 0, sem.available + sem.holds[u]))
    BY <1>1, <2>2, PermitsMove
  <2> QED BY <2>1, <2>2, <2>3 DEF Moved
<1>10. CASE Acquiring!AddPermits
  <2>1. sem.added + 1 \in 0 .. MaxAdded /\ sem.available + 1 \in Nat /\ sem.added \in Nat
    BY <1>1, <1>10, SemaphoreIs DEF Acquiring!AddPermits, Acquiring!SemaphoreType
  <2>2. /\ h \in Acquiring!SemaphoreType /\ h.stack = sem.stack /\ h.holds = sem.holds
        /\ h.available = sem.available + 1 /\ h.added = sem.added + 1
    BY <1>1, <1>3, <1>10, <2>1 DEF Acquiring!AddPermits, Acquiring!SemaphoreType
  <2>3. SpinsOnce(h)
    BY <1>1, <2>2 DEF SemaphoreGood, SpinsOnce
  <2>4. SumFunction(sem.holds) \in Nat
    BY <1>1, SemaphoreIs, SumIsNat
  <2>5. Conserved(h)
    <3>1. sem.available + SumFunction(sem.holds) = Permits + sem.added
      BY <1>1 DEF SemaphoreGood, Conserved
    <3>2. sem.available + 1 + SumFunction(sem.holds) = Permits + (sem.added + 1)
      <4>1. PICK k, x, w : k = sem.available /\ x = SumFunction(sem.holds) /\ w = sem.added
        OBVIOUS
      <4>2. k \in Nat /\ x \in Nat /\ w \in Nat /\ Permits \in Nat /\ k + x = Permits + w
        BY <1>1, <2>1, <2>4, <3>1, <4>1, SemaphoreIs
      <4>3. (k + 1) + x = Permits + (w + 1)
        BY <4>2
      <4> QED BY <4>1, <4>3
    <3> QED BY <2>2, <3>2 DEF Conserved
  <2> QED BY <2>2, <2>3, <2>5 DEF SemaphoreGood
<1>11. CASE UNCHANGED sem
  <2>1. h = sem
    BY <1>3, <1>11
  <2> QED BY <1>1, <2>1 DEF SemaphoreGood
<1> QED BY <1>6, <1>7, <1>8, <1>9, <1>10, <1>11 DEF Acquiring!Next

-----------------------------------------------------------------------------
(* JoinSet *)

(* What holds of a task at any time, in a state n of the set: a task that  *)
(* was joined or aborted has ended, one that is in the set has not been    *)
(* joined, and what runs is known to whoever must hear of its end.         *)
MemberGood(n, t) ==
  /\ t \in Range(n.handles) => n.joined[t] = "no" /\ n.task[t] # "none"
  /\ t \in Range(n.handles) /\ n.task[t] = "gone" => t \in n.killed \cup n.wiped
  /\ t \in n.killed \cup n.wiped => n.task[t] = "gone"
  /\ n.joined[t] # "no" => n.task[t] = "gone"
  /\ n.joined[t] = "err" => t \in n.killed \cup n.wiped
  /\ n.joined[t] = "ok" => t \notin n.killed \cup n.wiped
  /\ n.task[t] # "none" /\ n.owner # "dropped" =>
       t \in Range(n.handles) \/ n.joined[t] # "no" \/ t \in n.detached
  /\ n.owner = "dropped" /\ n.task[t] = "running" => t \in n.detached
  /\ n.owner = "parked" /\ ~n.woken /\ t \in Range(n.handles) =>
       (n.task[t] = "running" /\ t \in n.awaited) \/ t \in n.killed
  /\ t \in Blocking /\ n.task[t] = "running" =>
       n.thread[t] # "none" /\ (t \in n.ready \/ (t \in n.listens /\ n.thread[t] = "running"))

JoinGood(n) ==
  /\ n \in Joining!JoinSetType
  /\ IsInjective(n.handles)
  /\ \A t \in Members : MemberGood(n, t)

JoinInv == JoinGood(set)

LEMMA JoiningIs ==
  /\ Blocking \subseteq Members
  /\ \A s : Joining!Front(s) = Front(s) /\ Joining!Last(s) = Last(s) /\ Joining!Range(s) = Range(s)
  /\ \A s : Joining!IsInjective(s) <=> IsInjective(s)
<1>1. \A s : Joining!Front(s) = Front(s) /\ Joining!Last(s) = Last(s) /\ Joining!Range(s) = Range(s)
  BY DEF Joining!Front, Front, Joining!Last, Last, Joining!Range, Range
<1>2. \A s : Joining!IsInjective(s) <=> IsInjective(s)
  BY DEF Joining!IsInjective, IsInjective
<1> QED BY <1>1, <1>2, LibraryAssumption DEF Joining!JoinSetAssumption

LEMMA JoinShows ==
  ASSUME JoinInv
  PROVE  Joining!TypeOK /\ Joining!EachIsJoinedOnce /\ Joining!JoinNextIsWoken
<1>1. /\ set \in Joining!JoinSetType /\ IsInjective(set.handles) /\ \A t \in Members : MemberGood(set, t)
      /\ set.handles \in Seq(Members)
  BY DEF JoinInv, JoinGood, Joining!JoinSetType
<1>2. Range(set.handles) \subseteq Members
  BY <1>1, InRange
<1>3. Joining!TypeOK
  BY <1>1 DEF Joining!TypeOK
<1>4. Joining!EachIsJoinedOnce
  BY <1>1, JoiningIs DEF MemberGood, Joining!EachIsJoinedOnce
<1>5. Joining!JoinNextIsWoken
  BY <1>1, <1>2, JoiningIs DEF MemberGood, Joining!JoinNextIsWoken, Joining!WillWake
<1> QED BY <1>3, <1>4, <1>5

LEMMA JoinInit == ASSUME Joining!Init PROVE JoinInv
<1>1. << >> \in Seq(Members) /\ Range(<< >>) = {} /\ IsInjective(<< >>)
  BY EmptySeq DEF Range, IsInjective
<1>2. set \in Joining!JoinSetType
  BY <1>1 DEF Joining!Init, Joining!JoinSetType
<1>3. ASSUME NEW t \in Members PROVE MemberGood(set, t)
  BY <1>1, <1>3 DEF Joining!Init, MemberGood
<1> QED BY <1>1, <1>2, <1>3 DEF JoinInv, JoinGood, Joining!Init

(* Tasks are killed, by anyone at any time. *)
LEMMA KillKeeps ==
  ASSUME NEW n, JoinGood(n), NEW ts \in SUBSET Members
  PROVE  /\ JoinGood(Joining!Kill(n, ts))
         /\ Joining!Kill(n, ts).handles = n.handles /\ Joining!Kill(n, ts).owner = n.owner
         /\ Joining!Kill(n, ts).joined = n.joined
         /\ Joining!Kill(n, ts).detached = n.detached
         /\ \A t \in ts : n.task[t] # "none" =>
              \/ t \in Joining!Kill(n, ts).killed \cup Joining!Kill(n, ts).wiped
              \/ t \notin Range(n.handles)
         /\ \A t \in ts : Joining!Kill(n, ts).task[t] \in {"none", "gone"}
<1> DEFINE ran == {t \in ts : n.task[t] = "running"}
           had == {t \in ts : n.task[t] = "complete"}
           hit == ran \cup had
           task == [t \in Members |-> IF t \in hit THEN "gone" ELSE n.task[t]]
<1>1. PICK h : h = Joining!Kill(n, ts)
  OBVIOUS
<1>2. /\ n \in Joining!JoinSetType /\ n.task \in [Members -> {"none", "running", "complete", "gone"}]
      /\ \A t \in Members : MemberGood(n, t)
  BY DEF JoinGood, Joining!JoinSetType
<1>3. h = [n EXCEPT !.task = task, !.awaited = n.awaited \ hit, !.ready = n.ready \ hit,
                    !.killed = n.killed \cup ran, !.wiped = n.wiped \cup had]
  BY <1>1, <1>2 DEF Joining!Kill, Joining!JoinSetType
<1>4. /\ task \in [Members -> {"none", "running", "complete", "gone"}] /\ hit \in SUBSET Members
      /\ ran \in SUBSET Members /\ had \in SUBSET Members
      /\ \A t \in Members : task[t] = IF t \in hit THEN "gone" ELSE n.task[t]
      /\ \A t : t \in hit <=> t \in ran \/ t \in had
      /\ \A t : t \in ran <=> t \in ts /\ n.task[t] = "running"
      /\ \A t : t \in had <=> t \in ts /\ n.task[t] = "complete"
  BY <1>2
<1> HIDE DEF ran, had, hit, task
<1>5. /\ h \in Joining!JoinSetType /\ h.handles = n.handles /\ h.task = task /\ h.awaited = n.awaited \ hit
      /\ h.thread = n.thread /\ h.listens = n.listens /\ h.ready = n.ready \ hit /\ h.owner = n.owner
      /\ h.woken = n.woken /\ h.joined = n.joined /\ h.detached = n.detached
      /\ h.killed = n.killed \cup ran /\ h.wiped = n.wiped \cup had
  BY <1>2, <1>3, <1>4 DEF Joining!JoinSetType
<1>6. ASSUME NEW t \in Members PROVE MemberGood(h, t)
  <2>1. MemberGood(n, t)
    BY <1>2
  <2>2. CASE t \notin hit
    <3>1. h.task[t] = n.task[t] /\ (t \in h.killed <=> t \in n.killed) /\ (t \in h.wiped <=> t \in n.wiped)
      BY <1>4, <1>5, <2>2
    <3> QED BY <1>5, <2>1, <2>2, <3>1 DEF MemberGood
  <2>3. CASE t \in hit
    <3>1. h.task[t] = "gone" /\ (t \in h.killed \/ t \in h.wiped) /\ n.task[t] \in {"running", "complete"}
      BY <1>4, <1>5, <2>3
    <3>2. n.task[t] = "running" => t \in h.killed
      BY <1>4, <1>5, <2>3
    <3> QED BY <1>5, <2>1, <3>1, <3>2 DEF MemberGood
  <2> QED BY <2>2, <2>3
<1>7. JoinGood(h)
  BY <1>5, <1>6 DEF JoinGood
<1>8. ASSUME NEW t \in ts
      PROVE  /\ n.task[t] # "none" => t \in h.killed \cup h.wiped \/ t \notin Range(n.handles)
             /\ h.task[t] \in {"none", "gone"}
  <2>1. t \in Members /\ MemberGood(n, t)
    BY <1>2
  <2> QED BY <1>2, <1>4, <1>5, <2>1 DEF MemberGood
<1> QED BY <1>1, <1>5, <1>7, <1>8

(* A task ends, and wakes who awaits it. *)
LEMMA CompleteKeeps ==
  ASSUME JoinGood(set), NEW t \in Members, set.task[t] = "running", NEW ready \in SUBSET Members,
         \A x \in Members : x # t => (x \in ready <=> x \in set.ready)
  PROVE  JoinGood(Joining!Complete([set EXCEPT !.ready = ready], t))
<1> DEFINE task == [set.task EXCEPT ![t] = "complete"]
<1>1. PICK h : h = Joining!Complete([set EXCEPT !.ready = ready], t)
  OBVIOUS
<1>2. /\ set \in Joining!JoinSetType /\ set.task \in [Members -> {"none", "running", "complete", "gone"}]
      /\ set.woken \in BOOLEAN /\ set.awaited \in SUBSET Members /\ \A x \in Members : MemberGood(set, x)
  BY DEF JoinGood, Joining!JoinSetType
<1>3. h = [set EXCEPT !.task = task, !.woken = set.woken \/ t \in set.awaited,
                      !.awaited = set.awaited \ {t}, !.ready = ready]
  BY <1>1, <1>2 DEF Joining!Complete, Joining!JoinSetType
<1>4. /\ task \in [Members -> {"none", "running", "complete", "gone"}]
      /\ \A x \in Members : task[x] = IF x = t THEN "complete" ELSE set.task[x]
      /\ (set.woken \/ t \in set.awaited) \in BOOLEAN
  BY <1>2
<1> HIDE DEF task
<1>5. /\ h \in Joining!JoinSetType /\ h.handles = set.handles /\ h.task = task /\ h.awaited = set.awaited \ {t}
      /\ h.thread = set.thread /\ h.listens = set.listens /\ h.ready = ready /\ h.owner = set.owner
      /\ (h.woken <=> set.woken \/ t \in set.awaited)
      /\ h.joined = set.joined /\ h.killed = set.killed /\ h.wiped = set.wiped /\ h.detached = set.detached
  BY <1>2, <1>3, <1>4 DEF Joining!JoinSetType
<1>6. ASSUME NEW x \in Members PROVE MemberGood(h, x)
  <2>1. MemberGood(set, x) /\ MemberGood(set, t)
    BY <1>2
  <2> QED BY <1>4, <1>5, <2>1 DEF MemberGood
<1> QED BY <1>1, <1>5, <1>6 DEF JoinGood

(* The last handle takes the place of the one that is removed. *)
LEMMA SwapRemoves ==
  ASSUME NEW S, NEW s \in Seq(S), IsInjective(s), NEW i \in 1 .. Len(s)
  PROVE  /\ Joining!SwapRemove(s, i) \in Seq(S) /\ IsInjective(Joining!SwapRemove(s, i))
         /\ \A x : x \in Range(Joining!SwapRemove(s, i)) <=> x \in Range(s) /\ x # s[i]
<1>1. PICK h : h = Joining!SwapRemove(s, i)
  OBVIOUS
<1>2. PICK m \in Nat \ {0} : m = Len(s)
  BY LenProperties
<1>0. /\ s # << >> /\ DOMAIN s = 1 .. m /\ i \in 1 .. m /\ m \in 1 .. m
      /\ \A j \in 1 .. m : s[j] \in S
      /\ \A j \in 1 .. m - 1 : j \in 1 .. m /\ j # m
      /\ \A j \in 1 .. m : j # m => j \in 1 .. m - 1
  BY <1>2, LenProperties, ElementOfSeq, EmptySeq
<1>3. /\ Front(s) \in Seq(S) /\ Len(Front(s)) = m - 1 /\ Last(s) = s[m]
      /\ \A j \in 1 .. m - 1 : Front(s)[j] = s[j]
      /\ DOMAIN Front(s) = 1 .. m - 1
  <2>1. Front(s) \in Seq(S) /\ Len(Front(s)) = m - 1
    BY <1>2, <1>0, FrontAndLast
  <2> QED BY <1>2, <1>0, <2>1, FrontAndLast, LenProperties
<1>4. /\ h \in Seq(S) /\ Len(h) = m - 1 /\ DOMAIN h = 1 .. m - 1
      /\ \A j \in 1 .. m - 1 : h[j] = IF j = i THEN s[m] ELSE s[j]
  <2>1. CASE i = m
    BY <1>1, <1>2, <1>0, <1>3, <2>1, JoiningIs DEF Joining!SwapRemove
  <2>2. CASE i # m
    <3>1. h = [Front(s) EXCEPT ![i] = s[m]]
      BY <1>1, <1>2, <1>3, <2>2, JoiningIs DEF Joining!SwapRemove
    <3>2. i \in 1 .. Len(Front(s)) /\ s[m] \in S
      BY <1>2, <1>0, <1>3, <2>2
    <3>3. h \in Seq(S) /\ Len(h) = Len(Front(s))
      BY <1>3, <3>1, <3>2, ExceptSeq
    <3>4. DOMAIN h = 1 .. m - 1
      BY <1>3, <3>3, LenProperties
    <3> QED BY <1>3, <3>1, <3>2, <3>3, <3>4
  <2> QED BY <2>1, <2>2
<1>5. \A j, k \in 1 .. m : s[j] = s[k] => j = k
  BY <1>2, <1>0 DEF IsInjective
<1>6. IsInjective(h)
  <2>1. ASSUME NEW j \in 1 .. m - 1, NEW k \in 1 .. m - 1, h[j] = h[k] PROVE j = k
    <3>1. j \in 1 .. m /\ k \in 1 .. m /\ m \in 1 .. m /\ j # m /\ k # m
      BY <1>2, <1>0
    <3> QED BY <1>4, <1>5, <2>1, <3>1
  <2> QED BY <1>4, <2>1 DEF IsInjective
<1>7. ASSUME NEW x PROVE x \in Range(h) <=> x \in Range(s) /\ x # s[i]
  <2>1. (x \in Range(h) <=> \E j \in 1 .. m - 1 : h[j] = x) /\ (x \in Range(s) <=> \E j \in 1 .. m : s[j] = x)
    BY <1>2, <1>0, <1>4 DEF Range
  <2>2. ASSUME NEW j \in 1 .. m - 1, h[j] = x PROVE x \in Range(s) /\ x # s[i]
    <3>1. j \in 1 .. m /\ m \in 1 .. m /\ j # m
      BY <1>2, <1>0
    <3>2. CASE j = i
      BY <1>4, <1>5, <2>1, <2>2, <3>1, <3>2
    <3>3. CASE j # i
      BY <1>0, <1>4, <1>5, <2>1, <2>2, <3>1, <3>3
    <3> QED BY <3>2, <3>3
  <2>3. ASSUME NEW j \in 1 .. m, s[j] = x, x # s[i] PROVE x \in Range(h)
    <3>1. CASE j = m
      <4>1. i \in 1 .. m - 1
        BY <1>2, <1>0, <2>3, <3>1
      <4> QED BY <1>4, <2>1, <2>3, <3>1, <4>1
    <3>2. CASE j # m
      <4>1. j \in 1 .. m - 1 /\ j # i
        BY <1>2, <1>0, <2>3, <3>2
      <4> QED BY <1>4, <2>1, <2>3, <4>1
    <3> QED BY <3>1, <3>2
  <2> QED BY <2>1, <2>2, <2>3
<1> QED BY <1>1, <1>4, <1>6, <1>7

(* The handles are gone, each task's with what its end was. *)
LEMMA HandlesGo ==
  ASSUME NEW n, JoinGood(n), n.owner = "idle", NEW h, h \in Joining!JoinSetType,
         h.handles = << >>, h.owner \in {"idle", "dropped"},
         h.awaited = n.awaited, h.thread = n.thread, h.listens = n.listens, h.ready = n.ready,
         h.killed = n.killed, h.wiped = n.wiped,
         \A t \in Members :
           /\ h.task[t] = n.task[t] \/ (n.task[t] = "complete" /\ h.task[t] = "gone")
           /\ t \notin Range(n.handles) => h.joined[t] = n.joined[t]
           /\ t \in Range(n.handles) => h.joined[t] = "no" \/ (h.joined[t] = "err" /\ t \in n.killed \cup n.wiped)
           /\ t \in n.detached => t \in h.detached
           /\ t \in Range(n.handles) /\ h.owner = "idle" => h.joined[t] # "no" \/ t \in h.detached
           /\ t \in Range(n.handles) /\ h.owner = "dropped" => h.task[t] # "running"
  PROVE  JoinGood(h)
<1>1. Range(<< >>) = {} /\ IsInjective(<< >>)
  BY DEF Range, IsInjective
<1>2. ASSUME NEW t \in Members PROVE MemberGood(h, t)
  <2>1. MemberGood(n, t) /\ t \notin Range(h.handles)
    BY <1>1 DEF JoinGood
  <2> QED BY <2>1 DEF MemberGood
<1> QED BY <1>1, <1>2 DEF JoinGood

LEMMA JoinNextKeeps == ASSUME JoinGood(set), Joining!JoinNext PROVE JoinGood(set')
<1>1. /\ set \in Joining!JoinSetType /\ set.task \in [Members -> {"none", "running", "complete", "gone"}]
      /\ set.joined \in [Members -> {"no", "ok", "err"}] /\ set.awaited \in SUBSET Members
      /\ set.handles \in Seq(Members) /\ IsInjective(set.handles) /\ \A t \in Members : MemberGood(set, t)
  BY DEF JoinGood, Joining!JoinSetType
<1>2. PICK h : h = set'
  OBVIOUS
<1> SUFFICES JoinGood(h)
  BY <1>2
<1>3. PICK hs, m : hs = set.handles /\ m = Len(hs)
  OBVIOUS
<1>4. /\ hs \in Seq(Members) /\ m \in Nat /\ DOMAIN hs = 1 .. m /\ \A i \in 1 .. m : hs[i] \in Members
      /\ \A t : t \in Range(hs) <=> \E i \in 1 .. m : hs[i] = t
  BY <1>1, <1>3, LenProperties, ElementOfSeq, InRange
<1> DEFINE done == {i \in DOMAIN set.handles : Joining!Finished(set.handles[i])}
           asked(n) == {set.handles[i] : i \in 1 .. n}
<1>5. done = {i \in 1 .. m : Joining!Finished(hs[i])} /\ \A n : asked(n) = {hs[i] : i \in 1 .. n}
  BY <1>3, <1>4
<1>6. set.owner \in {"idle", "parked"}
  BY DEF Joining!JoinNext
<1>7. CASE done = {}
  <2>1. h = [set EXCEPT !.woken = FALSE, !.owner = "parked", !.awaited = set.awaited \cup asked(m)]
    BY <1>1, <1>2, <1>3, <1>7 DEF Joining!JoinNext, Joining!JoinSetType
  <2>2. asked(m) \in SUBSET Members /\ \A t : t \in asked(m) <=> t \in Range(hs)
    BY <1>3, <1>4
  <2>3. \A t \in Members : t \in Range(hs) => set.task[t] \notin {"complete", "gone"}
    BY <1>4, <1>5, <1>7 DEF Joining!Finished
  <2> HIDE DEF asked, done
  <2>4. /\ h \in Joining!JoinSetType /\ h.handles = hs /\ h.task = set.task
        /\ h.awaited = set.awaited \cup asked(m)
        /\ h.thread = set.thread /\ h.listens = set.listens /\ h.ready = set.ready /\ h.owner = "parked"
        /\ h.joined = set.joined /\ h.killed = set.killed /\ h.wiped = set.wiped /\ h.detached = set.detached
    BY <1>1, <1>3, <2>1, <2>2 DEF Joining!JoinSetType
  <2>5. ASSUME NEW t \in Members PROVE MemberGood(h, t)
    <3>1. MemberGood(set, t) /\ set.task[t] \in {"none", "running", "complete", "gone"}
      BY <1>1
    <3> QED BY <1>3, <1>6, <2>2, <2>3, <2>4, <3>1 DEF MemberGood
  <2> QED BY <1>1, <1>3, <2>4, <2>5 DEF JoinGood
<1>8. CASE done # {}
  <2>1. PICK i : i = CHOOSE k \in done : \A j \in done : k <= j
    OBVIOUS
  <2>2. i \in done
    <3>1. done \in SUBSET Nat
      BY <1>4, <1>5
    <3>2. \E x \in done : \A j \in done : x <= j
      BY <1>8, <3>1, LeastNumber
    <3> QED BY <2>1, <3>2
  <2>3. PICK t \in Members : t = hs[i]
    BY <1>4, <1>5, <2>2
  <2> DEFINE task == [set.task EXCEPT ![t] = "gone"]
             joined == [set.joined EXCEPT ![t] = IF set.task[t] = "complete" THEN "ok" ELSE "err"]
             rest == Joining!SwapRemove(hs, i)
  <2>4. h = [set EXCEPT !.woken = FALSE, !.owner = "idle", !.awaited = set.awaited \cup asked(i - 1),
                        !.handles = rest, !.task = task, !.joined = joined]
    <3> DEFINE n == [set EXCEPT !.woken = FALSE]
    <3>1. h = [n EXCEPT
                  !.owner = "idle", !.awaited = @ \cup asked(i - 1),
                  !.handles = Joining!SwapRemove(@, i), !.task[set.handles[i]] = "gone",
                  !.joined[set.handles[i]] = IF set.task[set.handles[i]] = "complete" THEN "ok" ELSE "err"]
      BY <1>2, <1>8, <2>1 DEF Joining!JoinNext
    <3>3. set.handles[i] = t
      BY <1>3, <2>3
    <3>2. /\ n.awaited = set.awaited /\ n.handles = set.handles /\ n.task = set.task /\ n.joined = set.joined
      BY <1>1 DEF Joining!JoinSetType
    <3> HIDE DEF asked
    <3> QED BY <1>1, <1>3, <3>1, <3>2, <3>3 DEF Joining!JoinSetType
  <2>5. /\ rest \in Seq(Members) /\ IsInjective(rest)
        /\ \A x : x \in Range(rest) <=> x \in Range(hs) /\ x # t
    BY <1>1, <1>3, <1>4, <1>5, <2>2, <2>3, SwapRemoves
  <2>6. asked(i - 1) \in SUBSET Members
    <3>1. \A j \in 1 .. i - 1 : j \in 1 .. m
      BY <1>4, <1>5, <2>2
    <3> QED BY <1>4, <1>5, <3>1
  <2>7. t \in Range(hs) /\ set.task[t] \in {"complete", "gone"}
    BY <1>4, <1>5, <2>2, <2>3 DEF Joining!Finished
  <2>8. /\ task \in [Members -> {"none", "running", "complete", "gone"}]
        /\ joined \in [Members -> {"no", "ok", "err"}]
        /\ \A x \in Members : task[x] = IF x = t THEN "gone" ELSE set.task[x]
        /\ \A x \in Members : joined[x] = IF x = t THEN (IF set.task[t] = "complete" THEN "ok" ELSE "err")
                                          ELSE set.joined[x]
    BY <1>1
  <2> HIDE DEF task, joined, rest, asked, done
  <2>9. /\ h \in Joining!JoinSetType /\ h.handles = rest /\ h.task = task
        /\ h.thread = set.thread /\ h.listens = set.listens /\ h.ready = set.ready /\ h.owner = "idle"
        /\ h.joined = joined /\ h.killed = set.killed /\ h.wiped = set.wiped /\ h.detached = set.detached
    BY <1>1, <2>4, <2>5, <2>6, <2>8 DEF Joining!JoinSetType
  <2>10. ASSUME NEW x \in Members PROVE MemberGood(h, x)
    <3>1. MemberGood(set, x)
      BY <1>1
    <3>2. CASE x = t
      <4>1. h.task[x] = "gone" /\ x \notin Range(h.handles)
        BY <2>5, <2>8, <2>9, <3>2
      <4>2. h.joined[x] = IF set.task[x] = "complete" THEN "ok" ELSE "err"
        BY <2>8, <2>9, <3>2
      <4> QED BY <1>3, <2>7, <2>9, <3>1, <3>2, <4>1, <4>2 DEF MemberGood
    <3>3. CASE x # t
      <4>1. h.task[x] = set.task[x] /\ h.joined[x] = set.joined[x] /\ (x \in Range(h.handles) <=> x \in Range(hs))
        BY <2>5, <2>8, <2>9, <3>3
      <4> QED BY <1>3, <1>6, <2>9, <3>1, <4>1 DEF MemberGood
    <3> QED BY <3>2, <3>3
  <2> QED BY <2>5, <2>9, <2>10 DEF JoinGood
<1> QED BY <1>7, <1>8

LEMMA JoinNextStep == ASSUME JoinInv, [Joining!Next]_set PROVE JoinInv'
<1>1. /\ JoinGood(set) /\ set \in Joining!JoinSetType /\ IsInjective(set.handles)
      /\ set.task \in [Members -> {"none", "running", "complete", "gone"}]
      /\ set.joined \in [Members -> {"no", "ok", "err"}] /\ set.awaited \in SUBSET Members
      /\ set.thread \in [Members -> {"none", "running", "stored"}]
      /\ set.ready \in SUBSET Members /\ set.listens \in SUBSET Members /\ set.detached \in SUBSET Members
      /\ set.handles \in Seq(Members) /\ \A t \in Members : MemberGood(set, t)
  BY DEF JoinInv, JoinGood, Joining!JoinSetType
<1>2. PICK h : h = set'
  OBVIOUS
<1> SUFFICES JoinGood(h)
  BY <1>2 DEF JoinInv
<1>3. Range(set.handles) \in SUBSET Members
  BY <1>1, InRange
(* A task that is spawned joins the handles. *)
<1>4. ASSUME NEW t \in Members, set.owner = "idle", set.task[t] = "none",
             NEW thread \in [Members -> {"none", "running", "stored"}], NEW ready \in SUBSET Members,
             \A x \in Members : x # t => thread[x] = set.thread[x] /\ (x \in ready <=> x \in set.ready),
             t \in Blocking => t \in ready /\ thread[t] = "running",
             h = [set EXCEPT !.task = [set.task EXCEPT ![t] = "running"],
                             !.handles = Append(set.handles, t), !.thread = thread, !.ready = ready]
      PROVE  JoinGood(h)
  <2> DEFINE task == [set.task EXCEPT ![t] = "running"]
             hs == Append(set.handles, t)
  <2>0. /\ thread \in [Members -> {"none", "running", "stored"}] /\ ready \in SUBSET Members
        /\ set.owner = "idle" /\ set.task[t] = "none"
        /\ \A x \in Members : x # t => thread[x] = set.thread[x] /\ (x \in ready <=> x \in set.ready)
        /\ t \in Blocking => t \in ready /\ thread[t] = "running"
    BY <1>4
  <2>1. t \notin Range(set.handles)
    BY <1>1, <1>4 DEF MemberGood
  <2>2. hs \in Seq(Members) /\ Range(hs) = Range(set.handles) \cup {t} /\ IsInjective(hs)
    <3>1. hs \in Seq(Members) /\ Range(hs) = Range(set.handles) \cup {t}
      BY <1>1, RangeOfAppend
    <3>2. PICK m : m = Len(set.handles)
      OBVIOUS
    <3>3. /\ m \in Nat /\ DOMAIN set.handles = 1 .. m /\ DOMAIN hs = 1 .. m + 1
          /\ \A i \in 1 .. m : hs[i] = set.handles[i] /\ set.handles[i] \in Range(set.handles)
          /\ hs[m + 1] = t
      <4>1. m \in Nat /\ DOMAIN set.handles = 1 .. m /\ Len(hs) = m + 1 /\ hs[m + 1] = t
            /\ \A i \in 1 .. m : hs[i] = set.handles[i]
        BY <1>1, <3>2, LenProperties, AppendProperties
      <4>2. DOMAIN hs = 1 .. Len(hs)
        BY <3>1, LenProperties
      <4> QED BY <4>1, <4>2 DEF Range
    <3> HIDE DEF hs
    <3>4. ASSUME NEW i \in 1 .. m + 1, NEW j \in 1 .. m + 1, hs[i] = hs[j] PROVE i = j
      <4>1. (i \in 1 .. m \/ i = m + 1) /\ (j \in 1 .. m \/ j = m + 1)
        BY <3>3
      <4> QED BY <1>1, <2>1, <3>3, <3>4, <4>1 DEF IsInjective
    <3> QED BY <3>1, <3>3, <3>4 DEF IsInjective
  <2>3. /\ task \in [Members -> {"none", "running", "complete", "gone"}]
        /\ \A x \in Members : task[x] = IF x = t THEN "running" ELSE set.task[x]
    BY <1>1
  <2>4. h = [set EXCEPT !.task = task, !.handles = hs, !.thread = thread, !.ready = ready]
    BY <1>4
  <2> HIDE DEF task, hs
  <2>5. /\ h \in Joining!JoinSetType /\ h.handles = hs /\ h.task = task /\ h.awaited = set.awaited
        /\ h.thread = thread /\ h.listens = set.listens /\ h.ready = ready /\ h.owner = "idle"
        /\ h.joined = set.joined /\ h.killed = set.killed /\ h.wiped = set.wiped /\ h.detached = set.detached
    BY <1>1, <2>0, <2>2, <2>3, <2>4 DEF Joining!JoinSetType
  <2>6. ASSUME NEW x \in Members PROVE MemberGood(h, x)
    <3>1. MemberGood(set, x)
      BY <1>1
    <3>2. CASE x = t
      BY <2>0, <2>2, <2>3, <2>5, <3>1, <3>2 DEF MemberGood
    <3>3. CASE x # t
      BY <2>0, <2>2, <2>3, <2>5, <3>1, <3>3 DEF MemberGood
    <3> QED BY <3>2, <3>3
  <2> QED BY <2>2, <2>5, <2>6 DEF JoinGood
<1>5. ASSUME NEW t \in Members, Joining!Spawn(t) PROVE JoinGood(h)
  <2>1. h = [set EXCEPT !.task[t] = "running", !.handles = Append(@, t)]
    BY <1>2, <1>5 DEF Joining!Spawn, Joining!Spawned
  <2>2. h = [set EXCEPT !.task = [set.task EXCEPT ![t] = "running"], !.handles = Append(set.handles, t),
                        !.thread = set.thread, !.ready = set.ready]
    BY <1>1, <2>1 DEF Joining!JoinSetType
  <2> QED BY <1>1, <1>4, <1>5, <2>2 DEF Joining!Spawn
<1>6. ASSUME NEW t \in Members, Joining!SpawnBlocking(t) PROVE JoinGood(h)
  <2> DEFINE thread == [set.thread EXCEPT ![t] = "running"]
             ready == set.ready \cup {t}
  <2>1. h = [[set EXCEPT !.task[t] = "running", !.handles = Append(@, t)]
               EXCEPT !.thread[t] = "running", !.ready = @ \cup {t}]
    BY <1>2, <1>6 DEF Joining!SpawnBlocking, Joining!Spawned
  <2>2. h = [set EXCEPT !.task = [set.task EXCEPT ![t] = "running"], !.handles = Append(set.handles, t),
                        !.thread = thread, !.ready = ready]
    BY <1>1, <2>1 DEF Joining!JoinSetType
  <2>3. /\ thread \in [Members -> {"none", "running", "stored"}] /\ ready \in SUBSET Members
        /\ \A x \in Members : thread[x] = IF x = t THEN "running" ELSE set.thread[x]
    BY <1>1
  <2>4. t \in ready /\ \A x \in Members : x # t => (x \in ready <=> x \in set.ready)
    OBVIOUS
  <2>5. set.owner = "idle" /\ set.task[t] = "none"
    BY <1>6 DEF Joining!SpawnBlocking
  <2> HIDE DEF thread, ready
  <2> QED BY <1>4, <2>2, <2>3, <2>4, <2>5
<1>7. ASSUME NEW t \in Members, Joining!ThreadDone(t) PROVE JoinGood(h)
  <2> DEFINE thread == [set.thread EXCEPT ![t] = "stored"]
             ready == IF t \in set.listens THEN set.ready \cup {t} ELSE set.ready
  <2>1. h = [set EXCEPT !.thread = thread, !.listens = set.listens \ {t}, !.ready = ready]
    BY <1>1, <1>2, <1>7 DEF Joining!ThreadDone, Joining!JoinSetType
  <2>2. /\ thread \in [Members -> {"none", "running", "stored"}] /\ ready \in SUBSET Members
        /\ \A x \in Members : thread[x] = IF x = t THEN "stored" ELSE set.thread[x]
        /\ \A x \in Members : x \in ready <=> x \in set.ready \/ (x = t /\ t \in set.listens)
    BY <1>1
  <2> HIDE DEF thread, ready
  <2>3. /\ h \in Joining!JoinSetType /\ h.handles = set.handles /\ h.task = set.task /\ h.awaited = set.awaited
        /\ h.thread = thread /\ h.listens = set.listens \ {t} /\ h.ready = ready /\ h.owner = set.owner
        /\ h.woken = set.woken
        /\ h.joined = set.joined /\ h.killed = set.killed /\ h.wiped = set.wiped /\ h.detached = set.detached
    BY <1>1, <2>1, <2>2 DEF Joining!JoinSetType
  <2>4. ASSUME NEW x \in Members PROVE MemberGood(h, x)
    <3>1. MemberGood(set, x)
      BY <1>1
    <3> QED BY <2>2, <2>3, <3>1 DEF MemberGood
  <2> QED BY <1>1, <2>3, <2>4 DEF JoinGood
<1>8. ASSUME NEW t \in Members, Joining!TaskDone(t) PROVE JoinGood(h)
  <2>1. h = Joining!Complete(set, t) /\ set.task[t] = "running"
    BY <1>2, <1>8 DEF Joining!TaskDone
  <2>2. set = [set EXCEPT !.ready = set.ready]
    BY <1>1 DEF Joining!JoinSetType
  <2>3. JoinGood(Joining!Complete([set EXCEPT !.ready = set.ready], t))
    BY <1>1, <2>1, CompleteKeeps
  <2> QED BY <2>1, <2>2, <2>3
<1>9. ASSUME NEW t \in Members, Joining!PollBlocking(t) PROVE JoinGood(h)
  <2>1. set.task[t] = "running" /\ set.ready \ {t} \in SUBSET Members
    BY <1>1, <1>9 DEF Joining!PollBlocking
  <2>2. CASE set.thread[t] = "stored"
    <3>1. h = Joining!Complete([set EXCEPT !.ready = set.ready \ {t}], t)
      BY <1>2, <1>9, <2>2 DEF Joining!PollBlocking
    <3> QED BY <1>1, <2>1, <3>1, CompleteKeeps
  <2>3. CASE set.thread[t] # "stored"
    <3>1. h = [set EXCEPT !.ready = set.ready \ {t}, !.listens = set.listens \cup {t}]
      BY <1>1, <1>2, <1>9, <2>3 DEF Joining!PollBlocking, Joining!JoinSetType
    <3>2. /\ h \in Joining!JoinSetType /\ h.handles = set.handles /\ h.task = set.task /\ h.awaited = set.awaited
          /\ h.thread = set.thread /\ h.listens = set.listens \cup {t} /\ h.ready = set.ready \ {t}
          /\ h.owner = set.owner /\ h.woken = set.woken
          /\ h.joined = set.joined /\ h.killed = set.killed /\ h.wiped = set.wiped /\ h.detached = set.detached
      BY <1>1, <3>1 DEF Joining!JoinSetType
    <3>3. ASSUME NEW x \in Members PROVE MemberGood(h, x)
      <4>1. MemberGood(set, x) /\ set.thread[t] \in {"none", "running"}
        BY <1>1, <2>3
      <4> QED BY <2>1, <3>2, <4>1 DEF MemberGood
    <3> QED BY <1>1, <3>2, <3>3 DEF JoinGood
  <2> QED BY <2>2, <2>3
<1>10. ASSUME NEW t \in Members, Joining!Abort(t) PROVE JoinGood(h)
  <2>1. h = Joining!Kill(set, {t})
    BY <1>2, <1>10 DEF Joining!Abort
  <2> QED BY <1>1, <2>1, KillKeeps
<1>11. CASE Joining!JoinNext
  BY <1>1, <1>2, <1>11, JoinNextKeeps
<1>12. CASE Joining!Cancel
  <2>1. h = [set EXCEPT !.owner = "idle"] /\ set.owner = "parked"
    BY <1>2, <1>12 DEF Joining!Cancel
  <2>2. /\ h \in Joining!JoinSetType /\ h.handles = set.handles /\ h.task = set.task /\ h.awaited = set.awaited
        /\ h.thread = set.thread /\ h.listens = set.listens /\ h.ready = set.ready /\ h.owner = "idle"
        /\ h.joined = set.joined /\ h.killed = set.killed /\ h.wiped = set.wiped /\ h.detached = set.detached
    BY <1>1, <2>1 DEF Joining!JoinSetType
  <2>3. ASSUME NEW x \in Members PROVE MemberGood(h, x)
    <3>1. MemberGood(set, x)
      BY <1>1
    <3> QED BY <2>1, <2>2, <3>1 DEF MemberGood
  <2> QED BY <1>1, <2>2, <2>3 DEF JoinGood
<1>13. CASE Joining!AbortAll
  BY <1>1, <1>2, <1>3, <1>13, JoiningIs, KillKeeps DEF Joining!AbortAll
<1>14. CASE Joining!DetachAll
  <2> DEFINE task == [t \in Members |-> IF t \in Range(set.handles) /\ set.task[t] = "complete"
                                        THEN "gone" ELSE set.task[t]]
             detached == set.detached \cup Range(set.handles)
  <2>1. h = [set EXCEPT !.handles = << >>, !.detached = detached, !.task = task] /\ set.owner = "idle"
    BY <1>1, <1>2, <1>14, JoiningIs DEF Joining!DetachAll, Joining!Detached, Joining!JoinSetType
  <2>2. /\ task \in [Members -> {"none", "running", "complete", "gone"}] /\ detached \in SUBSET Members
        /\ \A t \in Members : task[t] = set.task[t] \/ (set.task[t] = "complete" /\ task[t] = "gone")
        /\ \A t \in Members : t \in set.detached \/ t \in Range(set.handles) => t \in detached
        /\ << >> \in Seq(Members)
    BY <1>1, <1>3, EmptySeq
  <2> HIDE DEF task, detached
  <2>3. /\ h \in Joining!JoinSetType /\ h.handles = << >> /\ h.task = task /\ h.awaited = set.awaited
        /\ h.thread = set.thread /\ h.listens = set.listens /\ h.ready = set.ready /\ h.owner = "idle"
        /\ h.joined = set.joined /\ h.killed = set.killed /\ h.wiped = set.wiped /\ h.detached = detached
    BY <1>1, <2>1, <2>2 DEF Joining!JoinSetType
  <2>4. \A t \in Members : t \in Range(set.handles) => set.joined[t] = "no"
    BY <1>1 DEF MemberGood
  <2>5. \A t \in Members :
         /\ h.task[t] = set.task[t] \/ (set.task[t] = "complete" /\ h.task[t] = "gone")
         /\ t \notin Range(set.handles) => h.joined[t] = set.joined[t]
         /\ t \in Range(set.handles) => h.joined[t] = "no" \/ (h.joined[t] = "err" /\ t \in set.killed \cup set.wiped)
         /\ t \in set.detached => t \in h.detached
         /\ t \in Range(set.handles) /\ h.owner = "idle" => h.joined[t] # "no" \/ t \in h.detached
         /\ t \in Range(set.handles) /\ h.owner = "dropped" => h.task[t] # "running"
    BY <2>2, <2>3, <2>4
  <2>6. JoinGood(set) /\ set.owner = "idle" /\ h.owner \in {"idle", "dropped"}
    BY <1>1, <2>1, <2>3
  <2> QED BY <2>3, <2>5, <2>6, HandlesGo
<1>15. CASE Joining!Shutdown \/ Joining!Drop
  <2>1. PICK n : n = Joining!Kill(set, Range(set.handles))
    OBVIOUS
  <2>2. set.owner = "idle"
    BY <1>15 DEF Joining!Shutdown, Joining!Drop
  <2>3. /\ JoinGood(n) /\ n.handles = set.handles /\ n.owner = "idle" /\ n.joined = set.joined
        /\ n.detached = set.detached
        /\ \A t \in Range(set.handles) : t \in n.killed \cup n.wiped /\ n.task[t] \in {"none", "gone"}
    <3>1. \A t \in Range(set.handles) : t \in Members /\ set.task[t] # "none"
      BY <1>1, <1>3 DEF MemberGood
    <3> QED BY <1>1, <1>3, <2>1, <2>2, <3>1, KillKeeps
  <2>4. /\ n \in Joining!JoinSetType /\ \A t \in Members : MemberGood(n, t)
        /\ n.joined \in [Members -> {"no", "ok", "err"}] /\ << >> \in Seq(Members)
    BY <2>3, EmptySeq DEF JoinGood, Joining!JoinSetType
  <2>5. \A t \in Members : t \in Range(set.handles) => n.joined[t] = "no"
    BY <2>3, <2>4 DEF MemberGood
  <2>6. CASE Joining!Shutdown
    <3> DEFINE joined == [t \in Members |-> IF t \in Range(set.handles) THEN "err" ELSE n.joined[t]]
    <3>1. h = [n EXCEPT !.handles = << >>, !.joined = joined]
      BY <1>2, <2>1, <2>4, <2>6, JoiningIs DEF Joining!Shutdown, Joining!JoinSetType
    <3>2. /\ joined \in [Members -> {"no", "ok", "err"}]
          /\ \A t \in Members : joined[t] = IF t \in Range(set.handles) THEN "err" ELSE n.joined[t]
      BY <2>4
    <3> HIDE DEF joined
    <3>3. /\ h \in Joining!JoinSetType /\ h.handles = << >> /\ h.task = n.task /\ h.awaited = n.awaited
          /\ h.thread = n.thread /\ h.listens = n.listens /\ h.ready = n.ready /\ h.owner = "idle"
          /\ h.joined = joined /\ h.killed = n.killed /\ h.wiped = n.wiped /\ h.detached = n.detached
      BY <2>3, <2>4, <3>1, <3>2 DEF Joining!JoinSetType
    <3>4. \A t \in Members :
           /\ h.task[t] = n.task[t] \/ (n.task[t] = "complete" /\ h.task[t] = "gone")
           /\ t \notin Range(n.handles) => h.joined[t] = n.joined[t]
           /\ t \in Range(n.handles) => h.joined[t] = "no" \/ (h.joined[t] = "err" /\ t \in n.killed \cup n.wiped)
           /\ t \in n.detached => t \in h.detached
           /\ t \in Range(n.handles) /\ h.owner = "idle" => h.joined[t] # "no" \/ t \in h.detached
           /\ t \in Range(n.handles) /\ h.owner = "dropped" => h.task[t] # "running"
      BY <2>3, <3>2, <3>3
    <3> QED BY <2>3, <3>3, <3>4, HandlesGo
  <2>7. CASE Joining!Drop
    <3>1. h = [n EXCEPT !.handles = << >>, !.owner = "dropped"]
      BY <1>2, <2>1, <2>4, <2>7, JoiningIs DEF Joining!Drop, Joining!JoinSetType
    <3>2. /\ h \in Joining!JoinSetType /\ h.handles = << >> /\ h.task = n.task /\ h.awaited = n.awaited
          /\ h.thread = n.thread /\ h.listens = n.listens /\ h.ready = n.ready /\ h.owner = "dropped"
          /\ h.joined = n.joined /\ h.killed = n.killed /\ h.wiped = n.wiped /\ h.detached = n.detached
      BY <2>4, <3>1 DEF Joining!JoinSetType
    <3>3. \A t \in Members :
           /\ h.task[t] = n.task[t] \/ (n.task[t] = "complete" /\ h.task[t] = "gone")
           /\ t \notin Range(n.handles) => h.joined[t] = n.joined[t]
           /\ t \in Range(n.handles) => h.joined[t] = "no" \/ (h.joined[t] = "err" /\ t \in n.killed \cup n.wiped)
           /\ t \in n.detached => t \in h.detached
           /\ t \in Range(n.handles) /\ h.owner = "idle" => h.joined[t] # "no" \/ t \in h.detached
           /\ t \in Range(n.handles) /\ h.owner = "dropped" => h.task[t] # "running"
      BY <2>3, <2>5, <3>2
    <3> QED BY <2>3, <3>2, <3>3, HandlesGo
  <2> QED BY <1>15, <2>6, <2>7
<1>16. CASE UNCHANGED set
  BY <1>1, <1>2, <1>16
<1> QED
  BY <1>5, <1>6, <1>7, <1>8, <1>9, <1>10, <1>11, <1>12, <1>13, <1>14, <1>15, <1>16
  DEF Joining!Next

-----------------------------------------------------------------------------
(* Timing *)

(* The last tick is a period before the deadline, which is at most one     *)
(* ahead; a timer is for the deadline or a little later; and a task that   *)
(* looks at its delay has left its waker with whoever makes the value, or  *)
(* was woken since.                                                        *)
TimerFacts ==
  /\ tmr.deadline <= tmr.now + Period /\ tmr.target <= tmr.deadline
  /\ tmr.entry # Timer!None => tmr.deadline <= tmr.entry /\ tmr.entry <= tmr.now + Period
  /\ \A n \in tmr.ticks : n <= tmr.now /\ n + Period <= tmr.target
  /\ tmr.what # "interval" => tmr.ticks = {}
  /\ tmr.result # "none" => tmr.at = "done"
  /\ tmr.at = "delay" /\ tmr.what = "timeout" => (tmr.listens /\ ~tmr.value) \/ tmr.woken
  /\ tmr.at = "parked" /\ ~tmr.stale =>
       tmr.entry # Timer!None /\ (tmr.what = "timeout" => ~tmr.value /\ tmr.listens)

TimerInv == Timer!TypeOK /\ TimerFacts /\ Timer!NothingIsEarly

LEMMA TimerShows == ASSUME TimerInv PROVE Timer!TypeOK /\ Timer!NothingIsEarly /\ Timer!ParkedIsArmed
<1>1. Timer!TypeOK /\ Timer!NothingIsEarly /\ TimerFacts
  BY DEF TimerInv
<1>2. /\ tmr.entry \in Nat /\ tmr.deadline \in Nat /\ tmr.now + Period \in Nat
  BY <1>1, LibraryAssumption DEF Timer!TypeOK, Timer!TimingType, Timer!TimingAssumption, Timer!None
<1>3. ASSUME tmr.at = "parked", ~tmr.stale PROVE Timer!Armed
  <2>1. tmr.deadline <= tmr.entry /\ tmr.entry <= tmr.now + Period
    BY <1>1, <1>3 DEF TimerFacts
  <2> QED BY <1>1, <1>2, <1>3, <2>1 DEF TimerFacts, Timer!Armed
<1> QED BY <1>1, <1>3 DEF Timer!ParkedIsArmed

LEMMA TimerInit == ASSUME Timer!Init PROVE TimerInv
<1>1. Period \in Nat \ {0} /\ MaxClock \in Nat
  BY LibraryAssumption DEF Timer!TimingAssumption
<1>2. PICK kind \in {"sleep", "timeout", "interval", "select"}, later \in 0 .. MaxClock :
        tmr = [ what |-> kind, now |-> later, target |-> Period, deadline |-> later + Period,
                entry |-> Timer!None, stale |-> FALSE, value |-> FALSE, listens |-> FALSE, at |-> "queued",
                woken |-> FALSE, result |-> "none", ended |-> 0, ticks |-> {} ]
  BY DEF Timer!Init
<1>3. /\ later + Period \in 0 .. MaxClock + Period /\ Period \in 0 .. MaxClock + Period
      /\ Timer!None \in 0 .. Timer!None /\ Period <= later + Period /\ 0 \in 0 .. MaxClock
  BY <1>1 DEF Timer!None
<1>4. Timer!TypeOK
  BY <1>2, <1>3 DEF Timer!TypeOK, Timer!TimingType
<1>5. TimerFacts /\ Timer!NothingIsEarly
  BY <1>1, <1>2, <1>3 DEF TimerFacts, Timer!NothingIsEarly
<1> QED BY <1>4, <1>5 DEF TimerInv

(* What is left until a deadline at one reading, counted from a later one. *)
LEMMA UntilLater ==
  ASSUME NEW d \in Nat, NEW now \in Nat, NEW later \in Nat, now <= later,
         Period \in Nat, d <= now + Period
  PROVE  /\ Timer!Until(d, now) \in 0 .. Period
         /\ d <= later + Timer!Until(d, now)
BY DEF Timer!Until

LEMMA TimerNext == ASSUME TimerInv, [Timer!Next]_tmr PROVE TimerInv'
<1>1. /\ Period \in Nat \ {0} /\ MaxClock \in Nat /\ Timer!None \in Nat
      /\ Timer!None = 2 * MaxClock + Period + 1 /\ Timer!None \in 0 .. Timer!None
  BY LibraryAssumption DEF Timer!TimingAssumption, Timer!None
<1>2. /\ tmr \in Timer!TimingType
      /\ tmr.now \in 0 .. MaxClock /\ tmr.deadline \in 0 .. MaxClock + Period /\ tmr.ended \in 0 .. MaxClock
      /\ tmr.target \in 0 .. MaxClock + Period
      /\ tmr.entry \in 0 .. Timer!None /\ tmr.ticks \in SUBSET (0 .. MaxClock)
  BY DEF TimerInv, Timer!TypeOK, Timer!TimingType
<1>3. PICK h : h = tmr'
  OBVIOUS
<1> DEFINE
  Finishes == /\ tmr.at \in {"value", "delay"}
              /\ \E how \in {"ok", "elapsed"} :
                   /\ how = "ok" => tmr.value
                   /\ how = "elapsed" => tmr.now >= tmr.deadline
                   /\ tmr' = Timer!Finish(how)
  Waits == tmr.at = "delay" /\ Timer!Pending
  Ticks == tmr.at = "delay" /\ tmr.what = "interval" /\ Timer!Elapsed /\ Timer!Tick
<1>4. CASE Timer!Clock \/ Timer!OtherWake \/ Timer!ValueReady \/ Timer!StartPoll
  <2> USE DEF TimerInv, TimerFacts, Timer!TypeOK, Timer!TimingType, Timer!NothingIsEarly
  <2>1. CASE Timer!Clock
    BY <1>1, <2>1 DEF Timer!Clock
  <2>2. CASE Timer!OtherWake
    BY <1>1, <2>2 DEF Timer!OtherWake, Timer!Woken
  <2>3. CASE Timer!ValueReady
    BY <1>1, <2>3 DEF Timer!ValueReady, Timer!Woken
  <2>4. CASE Timer!StartPoll
    BY <1>1, <2>4 DEF Timer!StartPoll
  <2> QED BY <1>4, <2>1, <2>2, <2>3, <2>4
<1>5. CASE Timer!Fire
  <2>1. /\ h \in Timer!TimingType /\ h.at = "queued" /\ h.result = tmr.result /\ h.now = tmr.now
        /\ h.deadline = tmr.deadline /\ h.target = tmr.target /\ h.entry = Timer!None /\ h.what = tmr.what
        /\ h.ticks = tmr.ticks /\ h.ended = tmr.ended /\ h.value = tmr.value
    BY <1>1, <1>2, <1>3, <1>5 DEF Timer!Fire, Timer!Woken, Timer!TimingType
  <2>2. tmr.result = "none"
    BY <1>5 DEF Timer!Fire, TimerInv, TimerFacts
  <2> QED BY <1>3, <2>1, <2>2 DEF TimerInv, TimerFacts, Timer!TypeOK, Timer!NothingIsEarly
<1>6. CASE Finishes
  <2>1. PICK how \in {"ok", "elapsed"} :
             /\ how = "ok" => tmr.value
             /\ how = "elapsed" => tmr.now >= tmr.deadline
             /\ tmr' = Timer!Finish(how)
    BY <1>6
  <2>2. /\ h \in Timer!TimingType /\ h.at = "done" /\ h.result = how /\ h.now = tmr.now
        /\ h.deadline = tmr.deadline /\ h.target = tmr.target /\ h.entry = Timer!None /\ h.what = tmr.what
        /\ h.ticks = tmr.ticks /\ h.ended = tmr.now /\ h.value = tmr.value
    BY <1>1, <1>2, <1>3, <2>1 DEF Timer!Finish, Timer!TimingType
  <2> QED BY <1>1, <1>2, <1>3, <2>1, <2>2 DEF TimerInv, TimerFacts, Timer!TypeOK, Timer!NothingIsEarly
<1>7. CASE Timer!PollValue /\ ~tmr.value
  <2>1. /\ h \in Timer!TimingType /\ h.at = "delay" /\ h.result = tmr.result /\ h.now = tmr.now
        /\ h.deadline = tmr.deadline /\ h.target = tmr.target /\ h.entry = tmr.entry
        /\ h.ticks = tmr.ticks /\ h.ended = tmr.ended /\ h.value = tmr.value
        /\ h.what = tmr.what /\ h.listens = (tmr.what = "timeout") /\ tmr.at = "value"
    BY <1>1, <1>2, <1>3, <1>7 DEF Timer!PollValue, Timer!TimingType
  <2>2. tmr.result = "none"
    BY <2>1 DEF TimerInv, TimerFacts
  <2> QED BY <1>3, <1>7, <2>1, <2>2 DEF TimerInv, TimerFacts, Timer!TypeOK, Timer!NothingIsEarly
<1>8. CASE Waits
  <2>1. PICK now, later :
          /\ now \in tmr.now .. MaxClock /\ later \in now .. MaxClock
          /\ tmr' = [tmr EXCEPT
                       !.entry = IF @ = Timer!None THEN later + Timer!Until(tmr.deadline, now) ELSE @,
                       !.now = later, !.at = Timer!NextAt, !.stale = FALSE]
    BY <1>8 DEF Timer!Pending
  <2>2. /\ now \in Nat /\ later \in 0 .. MaxClock /\ tmr.now <= now /\ now <= later
        /\ tmr.deadline <= now + Period /\ tmr.deadline \in Nat
    BY <1>1, <1>2, <2>1 DEF TimerInv, TimerFacts
  <2>3. PICK left : left = Timer!Until(tmr.deadline, now)
    OBVIOUS
  <2>4. left \in 0 .. Period /\ tmr.deadline <= later + left
    <3>1. PICK d : d = tmr.deadline
      OBVIOUS
    <3>2. d \in Nat /\ d <= now + Period /\ later \in Nat /\ Period \in Nat
      BY <1>1, <2>2, <3>1
    <3>3. Timer!Until(d, now) \in 0 .. Period /\ d <= later + Timer!Until(d, now)
      BY <2>2, <3>2, UntilLater
    <3> QED BY <2>3, <3>1, <3>3
  <2>5. PICK e : e = IF tmr.entry = Timer!None THEN later + left ELSE tmr.entry
    OBVIOUS
  <2>6. e \in 0 .. Timer!None /\ e # Timer!None /\ tmr.deadline <= e /\ e <= later + Period
    BY <1>1, <1>2, <2>2, <2>4, <2>5 DEF TimerInv, TimerFacts
  <2>7. h = [tmr EXCEPT !.entry = e, !.now = later, !.at = Timer!NextAt, !.stale = FALSE]
    BY <1>2, <1>3, <2>1, <2>3, <2>5 DEF Timer!TimingType
  <2>8. Timer!NextAt \in {"queued", "parked"} /\ (Timer!NextAt = "parked" => ~tmr.woken)
    BY DEF Timer!NextAt
  <2>9. /\ h \in Timer!TimingType /\ h.at = Timer!NextAt /\ h.result = tmr.result /\ h.now = later
        /\ h.deadline = tmr.deadline /\ h.target = tmr.target /\ h.entry = e
        /\ h.ticks = tmr.ticks /\ h.ended = tmr.ended /\ h.value = tmr.value
        /\ h.what = tmr.what /\ h.listens = tmr.listens
    BY <1>2, <2>2, <2>6, <2>7, <2>8 DEF Timer!TimingType
  <2>10. tmr.at = "delay" /\ tmr.result = "none"
    BY <1>8 DEF TimerInv, TimerFacts
  <2>11. \A n \in tmr.ticks : n <= later
    BY <1>1, <1>2, <2>2 DEF TimerInv, TimerFacts
  <2> QED BY <1>1, <1>2, <1>3, <2>2, <2>6, <2>8, <2>9, <2>10, <2>11
          DEF TimerInv, TimerFacts, Timer!TypeOK, Timer!NothingIsEarly
(* A new SleepFuture is counted from the same reading, or a later one.     *)
<1>9. ASSUME NEW now \in tmr.now .. MaxClock, NEW later \in now .. MaxClock, NEW target \in 0 .. now + Period,
             NEW h1, h1 = Timer!Renewed(tmr, target, now, later)
      PROVE  /\ h1 \in Timer!TimingType /\ h1.now = later /\ h1.target = target /\ h1.entry = Timer!None
             /\ target <= h1.deadline /\ h1.deadline <= later + Period
             /\ h1.what = tmr.what /\ h1.ticks = tmr.ticks /\ h1.at = tmr.at /\ h1.result = tmr.result
             /\ h1.ended = tmr.ended /\ h1.value = tmr.value /\ h1.stale = tmr.stale
  <2>1. /\ now \in Nat /\ later \in 0 .. MaxClock /\ now <= later /\ target \in Nat /\ target <= now + Period
        /\ target \in 0 .. MaxClock + Period
    BY <1>1, <1>2
  <2>2. PICK left : left = Timer!Until(target, now)
    OBVIOUS
  <2>3. left \in 0 .. Period /\ target <= later + left
    BY <1>1, <2>1, <2>2, UntilLater
  <2>4. PICK d : d = later + left
    OBVIOUS
  <2>5. d \in 0 .. MaxClock + Period /\ target <= d /\ d <= later + Period
    BY <1>1, <2>1, <2>3, <2>4
  <2>6. h1 = [tmr EXCEPT !.target = target, !.deadline = d, !.entry = Timer!None, !.now = later]
    BY <1>9, <2>2, <2>4 DEF Timer!Renewed
  <2> QED BY <1>1, <1>2, <2>1, <2>5, <2>6 DEF Timer!TimingType
<1>10. CASE Ticks
  <2>1. PICK now, next, later :
          /\ now \in tmr.now .. MaxClock /\ next \in now .. MaxClock /\ later \in next .. MaxClock
          /\ tmr' = [Timer!Renewed(tmr, next + Period, next, later) EXCEPT !.ticks = @ \cup {now}, !.at = "queued"]
    BY <1>10 DEF Timer!Tick
  <2>2. /\ now \in 0 .. MaxClock /\ next \in tmr.now .. MaxClock /\ later \in 0 .. MaxClock
        /\ tmr.now <= now /\ now <= next /\ next <= later /\ next + Period \in 0 .. next + Period
    BY <1>1, <1>2, <2>1
  <2>3. PICK h1 : h1 = Timer!Renewed(tmr, next + Period, next, later)
    OBVIOUS
  <2>4. /\ h1 \in Timer!TimingType /\ h1.now = later /\ h1.target = next + Period /\ h1.entry = Timer!None
        /\ next + Period <= h1.deadline /\ h1.deadline <= later + Period
        /\ h1.what = tmr.what /\ h1.ticks = tmr.ticks /\ h1.result = tmr.result
        /\ h1.ended = tmr.ended /\ h1.value = tmr.value
    BY <1>9, <2>1, <2>2, <2>3
  <2>5. /\ h \in Timer!TimingType /\ h.at = "queued" /\ h.ticks = tmr.ticks \cup {now}
        /\ h.now = later /\ h.target = next + Period /\ h.entry = Timer!None
        /\ next + Period <= h.deadline /\ h.deadline <= later + Period
        /\ h.what = tmr.what /\ h.result = tmr.result
        /\ h.ended = tmr.ended /\ h.value = tmr.value
    BY <1>2, <1>3, <2>1, <2>2, <2>3, <2>4 DEF Timer!TimingType
  <2>6. tmr.result = "none" /\ tmr.target <= now /\ tmr.what = "interval"
    BY <1>1, <1>2, <1>10, <2>2 DEF TimerInv, TimerFacts, Timer!Elapsed
  <2>7. \A n \in tmr.ticks : n \in Nat /\ n <= tmr.now /\ n + Period <= tmr.target
    BY <1>2 DEF TimerInv, TimerFacts
  <2>8. \A n \in h.ticks : n <= h.now /\ n + Period <= h.target
    <3>1. ASSUME NEW n \in tmr.ticks PROVE n <= later /\ n + Period <= next + Period
      BY <1>1, <1>2, <2>2, <2>7
    <3>2. now <= later /\ now + Period <= next + Period
      BY <1>1, <2>2
    <3> QED BY <2>5, <3>1, <3>2
  <2>9. \A m, n \in h.ticks : m < n => m + Period <= n
    <3>1. \A m, n \in tmr.ticks : m < n => m + Period <= n
      BY DEF TimerInv, Timer!NothingIsEarly
    <3>2. ASSUME NEW n \in tmr.ticks PROVE n + Period <= now /\ ~(now < n)
      BY <1>1, <1>2, <2>2, <2>6, <2>7
    <3>3. ~(now < now)
      BY <2>2
    <3> QED BY <2>5, <3>1, <3>2, <3>3
  <2> QED BY <1>3, <2>5, <2>6, <2>8, <2>9
          DEF TimerInv, TimerFacts, Timer!TypeOK, Timer!NothingIsEarly
<1>11. CASE Timer!Reset
  <2>0. PICK now \in tmr.now .. MaxClock :
          \E later \in now .. MaxClock :
          \E target \in IF tmr.what = "interval" THEN {now + Period} ELSE 0 .. now + Period :
            tmr' = [Timer!Renewed(tmr, target, now, later) EXCEPT
                      !.at = IF @ = "done" THEN "queued" ELSE @, !.result = "none",
                      !.stale = (tmr.at = "parked")]
    BY <1>11, Zenon DEF Timer!Reset
  <2>1. PICK later, target :
          /\ now \in tmr.now .. MaxClock /\ later \in now .. MaxClock
          /\ target \in IF tmr.what = "interval" THEN {now + Period} ELSE 0 .. now + Period
          /\ tmr' = [Timer!Renewed(tmr, target, now, later) EXCEPT
                       !.at = IF @ = "done" THEN "queued" ELSE @, !.result = "none",
                       !.stale = (tmr.at = "parked")]
    BY <2>0, Zenon
  <2>2. /\ now \in Nat /\ later \in 0 .. MaxClock /\ tmr.now <= now /\ now <= later
        /\ target \in 0 .. now + Period
    BY <1>1, <1>2, <2>1
  <2>3. PICK h1 : h1 = Timer!Renewed(tmr, target, now, later)
    OBVIOUS
  <2>4. /\ h1 \in Timer!TimingType /\ h1.now = later /\ h1.target = target /\ h1.entry = Timer!None
        /\ target <= h1.deadline /\ h1.deadline <= later + Period
        /\ h1.what = tmr.what /\ h1.ticks = tmr.ticks /\ h1.at = tmr.at
        /\ h1.ended = tmr.ended /\ h1.value = tmr.value
    BY <1>9, <2>1, <2>2, <2>3
  <2>5. PICK place : place = IF tmr.at = "done" THEN "queued" ELSE tmr.at
    OBVIOUS
  <2>6. place \in {"queued", "parked"} /\ (place = "parked" => tmr.at = "parked")
    BY <1>11, <2>5 DEF Timer!Reset
  <2>7. h = [h1 EXCEPT !.at = place, !.result = "none", !.stale = (tmr.at = "parked")]
    BY <1>3, <2>1, <2>3, <2>4, <2>5 DEF Timer!TimingType
  <2>8. /\ h \in Timer!TimingType /\ h.at = place /\ h.result = "none" /\ h.now = later /\ h.target = target
        /\ h.entry = Timer!None /\ target <= h.deadline /\ h.deadline <= later + Period
        /\ h.what = tmr.what /\ h.ticks = tmr.ticks /\ (place = "parked" => h.stale)
    BY <2>4, <2>6, <2>7 DEF Timer!TimingType
  <2>9. \A n \in tmr.ticks : n <= later /\ n + Period <= target
    <3>1. tmr.what = "interval" => target = now + Period
      BY <2>1
    <3>2. \A n \in tmr.ticks : n \in Nat /\ n <= tmr.now
      BY <1>2 DEF TimerInv, TimerFacts
    <3>3. tmr.what # "interval" => tmr.ticks = {}
      BY DEF TimerInv, TimerFacts
    <3> QED BY <1>1, <1>2, <2>2, <3>1, <3>2, <3>3
  <2>10. tmr.what # "interval" => tmr.ticks = {}
    BY DEF TimerInv, TimerFacts
  <2> QED BY <1>3, <2>6, <2>8, <2>9, <2>10
          DEF TimerInv, TimerFacts, Timer!TypeOK, Timer!NothingIsEarly
<1>12. CASE UNCHANGED tmr
  BY <1>12 DEF TimerInv, TimerFacts, Timer!TypeOK, Timer!NothingIsEarly
<1>13. Timer!PollValue => Finishes \/ ~tmr.value
  BY DEF Timer!PollValue
<1>14. Timer!PollDelay => Finishes \/ Waits \/ Ticks
  BY DEF Timer!PollDelay, Timer!Elapsed
<1> QED BY <1>4, <1>5, <1>6, <1>7, <1>8, <1>10, <1>11, <1>12, <1>13, <1>14 DEF Timer!Next

-----------------------------------------------------------------------------
(* The components in one model: each keeps its invariant while the model   *)
(* is about it.                                                            *)

LibraryInv ==
  /\ which \in Components /\ which \in Chosen
  /\ which = "channel" => ChannelInv
  /\ which = "oneshot" => OnceInv
  /\ which = "watch" => WatchInv
  /\ which = "notify" => NotifyInv
  /\ which = "semaphore" => SemaphoreInv
  /\ which = "stream" => StreamInv
  /\ which = "joinSet" => JoinInv
  /\ which = "timing" => TimerInv
  /\ which = "bytes" => PipeInv
  /\ which = "readBuf" => BufferInv
  /\ which = "file" => FilesInv

Variables == <<which, chan, once, watch, ntf, sem, strm, set, tmr, pipe, rb, fsys>>

LEMMA LibraryInit == Init => LibraryInv
<1> SUFFICES ASSUME Init PROVE LibraryInv
  OBVIOUS
<1>1. which \in Components /\ which \in Chosen
  BY LibraryAssumption DEF Init
<1>2. CASE which = "channel"
  <2>1. ChannelInv
    BY <1>2, ChannelAssumptionHolds, ChannelInit DEF Init
  <2> QED BY <1>1, <1>2, <2>1 DEF LibraryInv
<1>3. CASE which = "oneshot"
  <2>1. OnceInv
    BY <1>3, OnceInit DEF Init
  <2> QED BY <1>1, <1>3, <2>1 DEF LibraryInv
<1>4. CASE which = "watch"
  <2>1. WatchInv
    BY <1>4, WatchInit DEF Init
  <2> QED BY <1>1, <1>4, <2>1 DEF LibraryInv
<1>5. CASE which = "notify"
  <2>1. NotifyInv
    BY <1>5, NotifyInit DEF Init
  <2> QED BY <1>1, <1>5, <2>1 DEF LibraryInv
<1>6. CASE which = "semaphore"
  <2>1. SemaphoreInv
    BY <1>6, SemaphoreInit DEF Init
  <2> QED BY <1>1, <1>6, <2>1 DEF LibraryInv
<1>7. CASE which = "stream"
  <2>1. StreamInv
    BY <1>7, StreamInit DEF Init
  <2> QED BY <1>1, <1>7, <2>1 DEF LibraryInv
<1>8. CASE which = "joinSet"
  <2>1. JoinInv
    BY <1>8, JoinInit DEF Init
  <2> QED BY <1>1, <1>8, <2>1 DEF LibraryInv
<1>9. CASE which = "timing"
  <2>1. TimerInv
    BY <1>9, TimerInit DEF Init
  <2> QED BY <1>1, <1>9, <2>1 DEF LibraryInv
<1>10. CASE which = "bytes"
  <2>1. PipeInv
    BY <1>10, PipeInit DEF Init
  <2> QED BY <1>1, <1>10, <2>1 DEF LibraryInv
<1>11. CASE which = "readBuf"
  <2>1. BufferInv
    BY <1>11, BufferInit DEF Init
  <2> QED BY <1>1, <1>11, <2>1 DEF LibraryInv
<1>12. CASE which = "file"
  <2>1. FilesInv
    BY <1>12, FilesInit DEF Init
  <2> QED BY <1>1, <1>12, <2>1 DEF LibraryInv
<1> QED BY <1>1, <1>2, <1>3, <1>4, <1>5, <1>6, <1>7, <1>8, <1>9, <1>10, <1>11, <1>12 DEF Components

LEMMA LibraryNext == LibraryInv /\ [Next]_Variables => LibraryInv'
<1> SUFFICES ASSUME LibraryInv, [Next]_Variables PROVE LibraryInv'
  OBVIOUS
<1>1. which' = which /\ which \in Components /\ which \in Chosen
  BY DEF Next, LibraryInv, Variables
<1>2. CASE which = "channel"
  <2>1. ChannelInv /\ [Channel!Next]_chan
    BY <1>2 DEF LibraryInv, Next, Variables
  <2>2. ChannelInv'
    BY <2>1, ChannelAssumptionHolds, ChannelNext
  <2> QED BY <1>1, <1>2, <2>2 DEF LibraryInv
<1>3. CASE which = "oneshot"
  <2>1. OnceInv /\ [Once!Next]_once
    BY <1>3 DEF LibraryInv, Next, Variables
  <2>2. OnceInv'
    BY <2>1, OnceNext
  <2> QED BY <1>1, <1>3, <2>2 DEF LibraryInv
<1>4. CASE which = "watch"
  <2>1. WatchInv /\ [Watching!Next]_watch
    BY <1>4 DEF LibraryInv, Next, Variables
  <2>2. WatchInv'
    BY <2>1, WatchNext
  <2> QED BY <1>1, <1>4, <2>2 DEF LibraryInv
<1>5. CASE which = "notify"
  <2>1. NotifyInv /\ [Notifying!Next]_ntf
    BY <1>5 DEF LibraryInv, Next, Variables
  <2>2. NotifyInv'
    BY <2>1, NotifyNext
  <2> QED BY <1>1, <1>5, <2>2 DEF LibraryInv
<1>6. CASE which = "semaphore"
  <2>1. SemaphoreInv /\ [Acquiring!Next]_sem
    BY <1>6 DEF LibraryInv, Next, Variables
  <2>2. SemaphoreInv'
    BY <2>1, SemaphoreNext
  <2> QED BY <1>1, <1>6, <2>2 DEF LibraryInv
<1>7. CASE which = "stream"
  <2>1. StreamInv /\ [Stream!Next]_strm
    BY <1>7 DEF LibraryInv, Next, Variables
  <2>2. StreamInv'
    BY <2>1, StreamNext
  <2> QED BY <1>1, <1>7, <2>2 DEF LibraryInv
<1>8. CASE which = "joinSet"
  <2>1. JoinInv /\ [Joining!Next]_set
    BY <1>8 DEF LibraryInv, Next, Variables
  <2>2. JoinInv'
    BY <2>1, JoinNextStep
  <2> QED BY <1>1, <1>8, <2>2 DEF LibraryInv
<1>9. CASE which = "timing"
  <2>1. TimerInv /\ [Timer!Next]_tmr
    BY <1>9 DEF LibraryInv, Next, Variables
  <2>2. TimerInv'
    BY <2>1, TimerNext
  <2> QED BY <1>1, <1>9, <2>2 DEF LibraryInv
<1>10. CASE which = "bytes"
  <2>1. PipeInv /\ [Pipe!Next]_pipe
    BY <1>10 DEF LibraryInv, Next, Variables
  <2>2. PipeInv'
    BY <2>1, PipeNext
  <2> QED BY <1>1, <1>10, <2>2 DEF LibraryInv
<1>11. CASE which = "readBuf"
  <2>1. BufferInv /\ [Buffer!Next]_rb
    BY <1>11 DEF LibraryInv, Next, Variables
  <2>2. BufferInv'
    BY <2>1, BufferNext
  <2> QED BY <1>1, <1>11, <2>2 DEF LibraryInv
<1>12. CASE which = "file"
  <2>1. FilesInv /\ [Files!Next]_fsys
    BY <1>12 DEF LibraryInv, Next, Variables
  <2>2. FilesInv'
    BY <2>1, FilesNext
  <2> QED BY <1>1, <1>12, <2>2 DEF LibraryInv
<1> QED BY <1>1, <1>2, <1>3, <1>4, <1>5, <1>6, <1>7, <1>8, <1>9, <1>10, <1>11, <1>12 DEF Components

(* Whatever the number of senders, receivers and messages: a channel gives *)
(* its messages in the order in which it accepted them, each once; a value *)
(* that went into a oneshot is received; a watch shows its last value to   *)
(* every receiver before its end.                                          *)
THEOREM MessagesAlwaysArrive == Spec => []MessagesArrive
<1>1. Init => LibraryInv
  BY LibraryInit
<1>2. LibraryInv /\ [Next]_<<which, chan, once, watch, ntf, sem, strm, set, tmr, pipe, rb, fsys>> => LibraryInv'
  BY LibraryNext DEF Variables
<1>3. LibraryInv => MessagesArrive
  BY DEF LibraryInv, MessagesArrive, ChannelInv, OnceInv, WatchInv
<1> QED BY <1>1, <1>2, <1>3, PTL DEF Spec

(* A Notify lets no more tasks pass than were announced, a Semaphore's     *)
(* permits are conserved for any number of users and any demand, however   *)
(* their acquires nest, and a task of a JoinSet, whoever aborts it when,   *)
(* is joined once or detached, with its result unless it was aborted.      *)
THEOREM CountsStayExact == Spec => []CountsAreExact
<1>1. Init => LibraryInv
  BY LibraryInit
<1>2. LibraryInv /\ [Next]_<<which, chan, once, watch, ntf, sem, strm, set, tmr, pipe, rb, fsys>> => LibraryInv'
  BY LibraryNext DEF Variables
<1>3. LibraryInv => CountsAreExact
  <2> SUFFICES ASSUME LibraryInv PROVE CountsAreExact
    OBVIOUS
  <2>1. which = "notify" => Notifying!PassesAreAnnounced
    BY DEF LibraryInv, NotifyInv
  <2>2. which = "semaphore" => Acquiring!PermitsConserved
    BY SemaphoreConserves DEF LibraryInv
  <2>3. which = "joinSet" => Joining!EachIsJoinedOnce
    BY JoinShows DEF LibraryInv
  <2> QED BY <2>1, <2>2, <2>3 DEF CountsAreExact
<1> QED BY <1>1, <1>2, <1>3, PTL DEF Spec

(* For any number of items: each adapter, whoever consumes it and however  *)
(* sources, the future of `then' and wakes interleave, gives the sequence  *)
(* its definition gives, and a merge asks both of its sides in turn.       *)
THEOREM StreamsStayExact == Spec => []StreamsAreExact
<1>1. Init => LibraryInv
  BY LibraryInit
<1>2. LibraryInv /\ [Next]_<<which, chan, once, watch, ntf, sem, strm, set, tmr, pipe, rb, fsys>> => LibraryInv'
  BY LibraryNext DEF Variables
<1>3. LibraryInv => StreamsAreExact
  <2> SUFFICES ASSUME LibraryInv PROVE StreamsAreExact
    OBVIOUS
  <2> QED BY StreamShows DEF LibraryInv, StreamsAreExact
<1> QED BY <1>1, <1>2, <1>3, PTL DEF Spec

(* For any number of bytes, any sizes of the pipe and the buffers, and any *)
(* way to read but read_line, of which the run LibraryLines shows that it  *)
(* drops bytes: what is read is what was written, in order; a ReadBuf and  *)
(* what is taken from it show only bytes that were written; and a file's   *)
(* operations happen in the order in which they are answered.              *)
THEOREM BytesStayExact ==
  ASSUME "line" \notin Modes
  PROVE  Spec => []BytesAreExact
<1>1. Init => LibraryInv
  BY LibraryInit
<1>2. LibraryInv /\ [Next]_<<which, chan, once, watch, ntf, sem, strm, set, tmr, pipe, rb, fsys>> => LibraryInv'
  BY LibraryNext DEF Variables
<1>3. LibraryInv => BytesAreExact
  <2> SUFFICES ASSUME LibraryInv PROVE BytesAreExact
    OBVIOUS
  <2>1. which = "bytes" => Pipe!NothingIsLost
    BY PipeShows DEF LibraryInv
  <2>2. which = "readBuf" => Buffer!ShownIsWritten
    BY BufferShows DEF LibraryInv
  <2>3. which = "file" => Files!FilesAreOrdered
    BY FilesShow DEF LibraryInv
  <2> QED BY <2>1, <2>2, <2>3 DEF BytesAreExact
<1> QED BY <1>1, <1>2, <1>3, PTL DEF Spec

(* For any period and as long as the clock runs, whatever passes between   *)
(* two readings of it: no sleep, timeout or tick is early, and a task      *)
(* parked on a delay has its entry in the executor's table, for no earlier *)
(* than its deadline and no later than a period from now, unless the sleep *)
(* was reset while its task was parked.                                    *)
THEOREM TimesAreAlwaysKept == Spec => []TimesAreKept
<1>1. Init => LibraryInv
  BY LibraryInit
<1>2. LibraryInv /\ [Next]_<<which, chan, once, watch, ntf, sem, strm, set, tmr, pipe, rb, fsys>> => LibraryInv'
  BY LibraryNext DEF Variables
<1>3. LibraryInv => TimesAreKept
  BY TimerShows DEF LibraryInv, TimesAreKept
<1> QED BY <1>1, <1>2, <1>3, PTL DEF Spec

(* No lost wake, for any number of tasks, items and bytes: whoever waits   *)
(* for a message, an item, a task of a JoinSet or bytes has its waker with *)
(* whoever can provide it, or was woken.  The exceptions are the code's:   *)
(* a channel that its receiver closed itself, a task that was aborted, and *)
(* an end of a stream that was dropped.  read_line is left out as above:   *)
(* it waits for a delimiter that it may have dropped.                      *)
THEOREM WaitersAreAlwaysHeard ==
  ASSUME "line" \notin Modes
  PROVE  Spec => []NobodyWaitsInVain
<1>1. Init => LibraryInv
  BY LibraryInit
<1>2. LibraryInv /\ [Next]_<<which, chan, once, watch, ntf, sem, strm, set, tmr, pipe, rb, fsys>> => LibraryInv'
  BY LibraryNext DEF Variables
<1>3. LibraryInv => NobodyWaitsInVain
  <2> SUFFICES ASSUME LibraryInv PROVE NobodyWaitsInVain
    OBVIOUS
  <2>1. which = "channel" => Channel!ReceiverWaitsForSomething
    BY ChannelShows DEF LibraryInv
  <2>2. which = "stream" => Stream!WaitsForItems
    BY StreamShows DEF LibraryInv
  <2>3. which = "joinSet" => Joining!JoinNextIsWoken
    BY JoinShows DEF LibraryInv
  <2>4. which = "bytes" => Pipe!PipeKeepsMoving
    BY PipeShows DEF LibraryInv
  <2> QED BY <2>1, <2>2, <2>3, <2>4 DEF NobodyWaitsInVain
<1> QED BY <1>1, <1>2, <1>3, PTL DEF Spec

(* Every component's variable has its type, in every way to read. *)
THEOREM LibraryIsTyped == Spec => []TypeOK
<1>1. Init => LibraryInv
  BY LibraryInit
<1>2. LibraryInv /\ [Next]_<<which, chan, once, watch, ntf, sem, strm, set, tmr, pipe, rb, fsys>> => LibraryInv'
  BY LibraryNext DEF Variables
<1>3. LibraryInv => TypeOK
  <2> SUFFICES ASSUME LibraryInv PROVE TypeOK
    OBVIOUS
  <2>1. which = "semaphore" => Acquiring!TypeOK
    BY SemaphoreConserves DEF LibraryInv
  <2>2. which = "stream" => Stream!TypeOK
    BY StreamShows DEF LibraryInv
  <2>3. which = "joinSet" => Joining!TypeOK
    BY JoinShows DEF LibraryInv
  <2>4. which = "bytes" => Pipe!TypeOK
    BY PipeShows DEF LibraryInv
  <2>5. which = "readBuf" => Buffer!TypeOK
    BY BufferShows DEF LibraryInv
  <2>6. which = "file" => Files!TypeOK
    BY FilesShow DEF LibraryInv
  <2> QED BY <2>1, <2>2, <2>3, <2>4, <2>5, <2>6
          DEF TypeOK, LibraryInv, ChannelInv, OnceInv, WatchInv, NotifyInv, TimerInv
<1> QED BY <1>1, <1>2, <1>3, PTL DEF Spec

=============================================================================
