----------------------------- MODULE MCLibrary -----------------------------
(***************************************************************************)
(* The parts of the tokio shim and of tau's streams that plugins use, each *)
(* by itself, in one model for TLC: `which' says whose states these are,   *)
(* and the variables of the others stay off.  Nothing is composed here;    *)
(* a behaviour is a behaviour of one component.                            *)
(***************************************************************************)
EXTENDS LibraryStreams, LibraryBytes, SequencesExt, FiniteSets

CONSTANTS
  Chosen,                          \* the components that are checked
  Senders, Receivers, Waiters,     \* sets of model values
  Users, u1, Members,
  Blocking,                        \* tasks of spawn_blocking
  Permits, Period,                 \* as the components say
  MaxSends, MaxVersion, MaxNotifications, MaxAdded, MaxClock     \* bounds

(* One user asks for two permits, the others for one. *)
Wants == [u \in Users |-> IF u = u1 THEN 2 ELSE 1]

VARIABLES which, chan, once, watch, ntf, sem, set, tmr

Channel == INSTANCE Mpsc
Once == INSTANCE Oneshot
Watching == INSTANCE Watch
Notifying == INSTANCE Notify
Acquiring == INSTANCE Semaphore
Joining == INSTANCE JoinSet
Timer == INSTANCE Timing

Components ==
  {"channel", "oneshot", "watch", "notify", "semaphore", "stream",
   "joinSet", "timing", "bytes", "readBuf", "file"}

ASSUME LibraryAssumption ==
  /\ Chosen \subseteq Components
  /\ Channel!MpscAssumption /\ Watching!WatchAssumption
  /\ Notifying!NotifyAssumption /\ Acquiring!SemaphoreAssumption
  /\ Joining!JoinSetAssumption /\ Timer!TimingAssumption

Off == [off |-> TRUE]

(* Of the variables one is its component's, the others stay off. *)
Init ==
  /\ which \in Chosen
  /\ IF which = "channel" THEN Channel!Init ELSE chan = Off
  /\ IF which = "oneshot" THEN Once!Init ELSE once = Off
  /\ IF which = "watch" THEN Watching!Init ELSE watch = Off
  /\ IF which = "notify" THEN Notifying!Init ELSE ntf = Off
  /\ IF which = "semaphore" THEN Acquiring!Init ELSE sem = Off
  /\ IF which = "stream" THEN Stream!Init ELSE strm = Off
  /\ IF which = "joinSet" THEN Joining!Init ELSE set = Off
  /\ IF which = "timing" THEN Timer!Init ELSE tmr = Off
  /\ IF which = "bytes" THEN Pipe!Init ELSE pipe = Off
  /\ IF which = "readBuf" THEN Buffer!Init ELSE rb = Off
  /\ IF which = "file" THEN Files!Init ELSE fsys = Off

Next ==
  /\ UNCHANGED which
  /\ \/ which = "channel" /\ Channel!Next
           /\ UNCHANGED <<once, watch, ntf, sem, strm, set, tmr, pipe, rb, fsys>>
     \/ which = "oneshot" /\ Once!Next
           /\ UNCHANGED <<chan, watch, ntf, sem, strm, set, tmr, pipe, rb, fsys>>
     \/ which = "watch" /\ Watching!Next
           /\ UNCHANGED <<chan, once, ntf, sem, strm, set, tmr, pipe, rb, fsys>>
     \/ which = "notify" /\ Notifying!Next
           /\ UNCHANGED <<chan, once, watch, sem, strm, set, tmr, pipe, rb, fsys>>
     \/ which = "semaphore" /\ Acquiring!Next
           /\ UNCHANGED <<chan, once, watch, ntf, strm, set, tmr, pipe, rb, fsys>>
     \/ which = "stream" /\ Stream!Next
           /\ UNCHANGED <<chan, once, watch, ntf, sem, set, tmr, pipe, rb, fsys>>
     \/ which = "joinSet" /\ Joining!Next
           /\ UNCHANGED <<chan, once, watch, ntf, sem, strm, tmr, pipe, rb, fsys>>
     \/ which = "timing" /\ Timer!Next
           /\ UNCHANGED <<chan, once, watch, ntf, sem, strm, set, pipe, rb, fsys>>
     \/ which = "bytes" /\ Pipe!Next
           /\ UNCHANGED <<chan, once, watch, ntf, sem, strm, set, tmr, rb, fsys>>
     \/ which = "readBuf" /\ Buffer!Next
           /\ UNCHANGED <<chan, once, watch, ntf, sem, strm, set, tmr, pipe, fsys>>
     \/ which = "file" /\ Files!Next
           /\ UNCHANGED <<chan, once, watch, ntf, sem, strm, set, tmr, pipe, rb>>

Spec == Init /\ [][Next]_<<which, chan, once, watch, ntf, sem, strm, set, tmr, pipe,
                          rb, fsys>>

-----------------------------------------------------------------------------
(* Each component's variable has its type. *)
TypeOK ==
  /\ which \in Components
  /\ which = "channel" => Channel!TypeOK
  /\ which = "oneshot" => Once!TypeOK
  /\ which = "watch" => Watching!TypeOK
  /\ which = "notify" => Notifying!TypeOK
  /\ which = "semaphore" => Acquiring!TypeOK
  /\ which = "stream" => Stream!TypeOK
  /\ which = "joinSet" => Joining!TypeOK
  /\ which = "timing" => Timer!TypeOK
  /\ which = "bytes" => Pipe!TypeOK
  /\ which = "readBuf" => Buffer!TypeOK
  /\ which = "file" => Files!TypeOK

(* Messages of an mpsc channel arrive in the order in which they were      *)
(* accepted, each once, while senders come, go and hold permits; a value   *)
(* that was sent into a oneshot channel is received, though its sender is  *)
(* dropped right after; the last value of a watch is seen, by every        *)
(* receiver, before the channel's end.                                     *)
MessagesArrive ==
  /\ which = "channel" => Channel!InOrder
  /\ which = "oneshot" => Once!SentIsDelivered
  /\ which = "watch" => Watching!LastValueIsSeen

(* No more tasks pass a Notify than notify_one and notify_waiters let      *)
(* pass; a Semaphore's permits are neither made nor lost, however its      *)
(* acquires nest on the stack; each task of a JoinSet is joined once, with *)
(* its result unless it was aborted before or after it had one, or was     *)
(* detached.                                                               *)
CountsAreExact ==
  /\ which = "notify" => Notifying!PassesAreAnnounced
  /\ which = "semaphore" => Acquiring!PermitsConserved
  /\ which = "joinSet" => Joining!EachIsJoinedOnce

(* What a consumer got of a stream is what the adapter's definition on     *)
(* sequences gives, whatever the wakes; a merge starves neither side.      *)
StreamsAreExact == which = "stream" => Stream!StreamIsExact /\ Stream!MergeIsFair

(* Bytes pass buffers and pipes in order and none is lost, no byte that    *)
(* nobody wrote is shown, and operations on files happen in the order of   *)
(* their answers.                                                          *)
BytesAreExact ==
  /\ which = "bytes" => Pipe!NothingIsLost
  /\ which = "readBuf" => Buffer!ShownIsWritten
  /\ which = "file" => Files!FilesAreOrdered

(* "Notifies all waiting tasks" (notify_waiters, notify.rs).               *)
NotifyReachesAll == which = "notify" => Notifying!AllToldPass

(* Timers: nothing elapses early, and nothing that waits lacks its timer,  *)
(* but a sleep that was reset while its task was parked.                   *)
TimesAreKept == which = "timing" => Timer!NothingIsEarly /\ Timer!ParkedIsArmed

(* No lost wake: whoever waits, for a message, an item, a task or bytes,   *)
(* has left a waker where that will come from, or is woken already; and    *)
(* there is somebody it can come from, but to a receiver that closed its   *)
(* channel itself, a join_next whose tasks were all aborted meanwhile, and *)
(* an end of a duplex stream whose other end was dropped.                  *)
NobodyWaitsInVain ==
  /\ which = "channel" => Channel!ReceiverWaitsForSomething
  /\ which = "stream" => Stream!WaitsForItems
  /\ which = "joinSet" => Joining!JoinNextIsWoken
  /\ which = "bytes" => Pipe!PipeKeepsMoving

(* "Reads all bytes until a newline is found" (io/mod.rs), also when they  *)
(* come in pieces.                                                         *)
LinesAreWhole == which = "bytes" => Pipe!NothingIsLost

=============================================================================
