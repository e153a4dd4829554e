------------------------------- MODULE Reactor -------------------------------
(***************************************************************************)
(* One registered descriptor, the tasks that read or write it, and the     *)
(* reactor.  The reactor's functions run under its mutex and are one step  *)
(* each; a poll of a read or a write is several: it asks whether the       *)
(* direction is ready, tries, and when that would block it clears the      *)
(* readiness and asks again, this time without looking at the answer.      *)
(* AsyncFd leaves the trying to its user, who asks anew.  The kernel makes *)
(* a direction ready at any time; trying may use that up.                  *)
(***************************************************************************)
EXTENDS Naturals, FiniteSets

CONSTANTS
  Kinds,       \* which kinds of descriptors there are
  Tasks,       \* who uses the descriptor
  DirOf,       \* ... and in which direction
  NONE         \* no waker

Dirs == {"read", "write"}

ReactorAssumption ==
  /\ Kinds \subseteq {"tcp", "half", "unix", "udp", "pipe", "connect", "listener", "fd"}
  /\ DirOf \in [Tasks -> Dirs]
  /\ NONE \notin Tasks

VARIABLE io

ReactorType ==
  [ kind       : Kinds,
    other      : BOOLEAN,               \* another thread polls the reactor too
    registered : BOOLEAN,               \* io_states has the token
    readiness  : SUBSET Dirs,
    waker      : [Dirs -> Tasks \cup {NONE}],   \* read_waker, write_waker
    os         : SUBSET Dirs,           \* what the kernel would do at once
    at         : [Tasks -> {"idle", "try", "blocked", "cleared", "parked", "done"}],
    woken      : SUBSET Tasks,
    dropped    : SUBSET Dirs,           \* halves, or the whole, that are gone
    ousted     : SUBSET Tasks,          \* parked, and another's waker took the place
                                        \* of theirs (history)
    missed     : SUBSET Tasks ]         \* parked although ready again (history)

TypeOK == io \in ReactorType

(* Reactor::new and register, for the directions of the kind. *)
Interest(kind) ==
  IF kind = "listener" THEN {"read"} ELSE IF kind = "connect" THEN {"write"} ELSE Dirs

Init ==
  \E kind \in Kinds, other \in BOOLEAN, os \in SUBSET Dirs :
    io = [ kind |-> kind, other |-> other, registered |-> TRUE, readiness |-> {},
           waker |-> [d \in Dirs |-> NONE], os |-> os,
           at |-> [t \in Tasks |-> "idle"], woken |-> {}, dropped |-> {},
           ousted |-> {}, missed |-> {} ]

-----------------------------------------------------------------------------
(* The reactor, and the exports that call it under the mutex *)

Ready(d) == ~io.registered \/ d \in io.readiness

(* poll_ready: ready, or the waker is kept in the place of an older one.   *)
PollReady(n, t) ==
  IF Ready(DirOf[t]) THEN [n EXCEPT !.at[t] = "try"]
  ELSE [n EXCEPT !.at[t] = "parked", !.waker[DirOf[t]] = t,
                 !.ousted = @ \cup {u \in Tasks \ {t} : n.waker[DirOf[t]] = u}]

StaysReady(n, d) == n           \* mutant: the readiness is not cleared

(* clear_ready does nothing for a token that is gone. *)
Cleared(n, d) == [n EXCEPT !.readiness = IF n.registered THEN @ \ {d} ELSE @]

(* deregister drops the wakers with the state. *)
Deregistered(n) ==
  [n EXCEPT !.registered = FALSE, !.readiness = {}, !.waker = [d \in Dirs |-> NONE]]

MidPoll(t) == io.at[t] \in {"try", "blocked", "cleared"}
Accepting  == io.kind = "listener"

(* The thread that polls a task polls nothing else meanwhile; not even an  *)
(* accept that waits, whose drive() does not poll the reactor.             *)
ThreadIsFree == io.other \/ \A t \in Tasks : ~MidPoll(t)

(* Level-triggered: an event is there again until it is used up.           *)
Events == io.os \cap Interest(io.kind)

Poll ==
  /\ ThreadIsFree /\ io.registered /\ Events # {}
  /\ io' = [io EXCEPT !.readiness = @ \cup Events,
                      !.woken = @ \cup {t \in Tasks : \E d \in Events : io.waker[d] = t},
                      !.waker = [d \in Dirs |-> IF d \in Events THEN NONE ELSE @[d]]]

KernelReady(d) ==
  /\ d \notin io.os /\ io.dropped # Dirs
  /\ io' = [io EXCEPT !.os = @ \cup {d}]

-----------------------------------------------------------------------------
(* A poll of a read or a write *)

(* Who shares a descriptor by reference: the others need it exclusively.   *)
Shared == {"udp", "fd"}
Others(t) == {u \in Tasks \ {t} : DirOf[u] = DirOf[t]}

MayStart(t) ==
  /\ ThreadIsFree /\ DirOf[t] \notin io.dropped
  /\ io.kind \in Shared \/ \A u \in Others(t) : io.at[u] = "idle"
  /\ io.at[t] = "idle" \/ (io.at[t] = "parked" /\ t \in io.woken)

Start(t) ==
  /\ MayStart(t)
  /\ io' = PollReady([io EXCEPT !.woken = @ \ {t}, !.ousted = @ \ {t},
                                !.missed = @ \ {t}], t)

(* The system call: done, with or without more to come, or WouldBlock.     *)
Try(t) ==
  /\ io.at[t] = "try"
  /\ IF DirOf[t] \in io.os
     THEN \E os \in {io.os, io.os \ {DirOf[t]}} :
            io' = [io EXCEPT !.at[t] = "idle", !.os = os]
     ELSE io' = [io EXCEPT !.at[t] = "blocked"]

ClearReady(t) ==
  /\ io.at[t] = "blocked"
  /\ io' = [Cleared(io, DirOf[t]) EXCEPT !.at[t] = "cleared"]

(* The second poll_ready; Pending is returned whatever it says. *)
Rearm(t) ==
  /\ io.at[t] = "cleared"
  /\ io' = [PollReady(io, t) EXCEPT
              !.at[t] = "parked",
              !.missed = IF Ready(DirOf[t]) THEN @ \cup {t} ELSE @]

PollIo(t) == Start(t) \/ Try(t) \/ ClearReady(t) \/ Rearm(t)

Handler(kind, d, t) == io.kind = kind /\ DirOf[t] = d /\ PollIo(t)

TcpRead(t)   == Handler("tcp", "read", t)
TcpWrite(t)  == Handler("tcp", "write", t)
HalfRead(t)  == Handler("half", "read", t)
HalfWrite(t) == Handler("half", "write", t)
UnixRead(t)  == Handler("unix", "read", t)
UnixWrite(t) == Handler("unix", "write", t)
UdpSend(t)   == Handler("udp", "write", t)
UdpRecv(t)   == Handler("udp", "read", t)
PipeRead(t)  == Handler("pipe", "read", t)     \* ChildStdout, ChildStderr
PipeWrite(t) == Handler("pipe", "write", t)    \* ChildStdin

(* AsyncFd: the user clears the readiness itself and waits anew. *)
FdWait(t)  == io.kind = "fd" /\ (Start(t) \/ Try(t))
FdClear(t) ==
  /\ io.kind = "fd" /\ io.at[t] = "blocked"
  /\ io' = [Cleared(io, DirOf[t]) EXCEPT !.at[t] = "idle"]

(* ConnectFuture: once writable, the error is looked up and it is done;    *)
(* it deregisters when it is dropped.                                      *)
Connect(t) ==
  /\ io.kind = "connect" /\ DirOf[t] = "write"
  /\ Start(t)
Connected(t) ==
  /\ io.kind = "connect" /\ io.at[t] = "try"
  /\ io' = [Deregistered(io) EXCEPT !.at[t] = "done"]

(* accept does not ask the reactor: it tries, and when that would block it *)
(* drives the executor and tries again, all in one poll.                   *)
Accept(t) ==
  /\ Accepting /\ DirOf[t] = "read" /\ "read" \notin io.dropped
  /\ io.at[t] \in {"idle", "try"}
  /\ IF "read" \in io.os
     THEN \E os \in {io.os, io.os \ {"read"}} : io' = [io EXCEPT !.at[t] = "idle", !.os = os]
     ELSE io' = [Cleared(io, "read") EXCEPT !.at[t] = "try"]

(* The owner drops the descriptor; nobody is in the middle of using it.    *)
Unused(d) == \A t \in Tasks : DirOf[t] = d => io.at[t] = "idle"

Drop ==
  /\ io.kind # "half" /\ io.registered /\ \A d \in Dirs : Unused(d)
  /\ io' = [Deregistered(io) EXCEPT !.dropped = Dirs]

(* Of the halves of a stream the read half owns the registration. *)
DropReadHalf ==
  /\ io.kind = "half" /\ "read" \notin io.dropped /\ Unused("read")
  /\ io' = [Deregistered(io) EXCEPT !.dropped = @ \cup {"read"}]

DropWriteHalf ==
  /\ io.kind = "half" /\ "write" \notin io.dropped /\ Unused("write")
  /\ io' = [io EXCEPT !.dropped = @ \cup {"write"}]

(* A future that waits is dropped, as by a timeout; its waker stays. *)
Cancel(t) ==
  /\ io.at[t] = "parked"
  /\ io' = [io EXCEPT !.at[t] = "idle", !.woken = @ \ {t}]

Next ==
  \/ Poll \/ Drop \/ DropReadHalf \/ DropWriteHalf
  \/ \E d \in Dirs : KernelReady(d)
  \/ \E t \in Tasks :
       \/ TcpRead(t) \/ TcpWrite(t) \/ HalfRead(t) \/ HalfWrite(t)
       \/ UnixRead(t) \/ UnixWrite(t) \/ UdpSend(t) \/ UdpRecv(t)
       \/ PipeRead(t) \/ PipeWrite(t) \/ FdWait(t) \/ FdClear(t)
       \/ Connect(t) \/ Connected(t) \/ Accept(t) \/ Cancel(t)

Spec == Init /\ [][Next]_io

-----------------------------------------------------------------------------
(* A task that waits for a direction will be woken when that is ready: the *)
(* reactor has its waker, and the next poll of the reactor will deliver    *)
(* what the kernel has for it.                                             *)
Registered(t) ==
  /\ io.registered /\ io.waker[DirOf[t]] = t
  /\ DirOf[t] \in io.os => DirOf[t] \in Events

Waiting == {t \in Tasks : io.at[t] = "parked" /\ t \notin io.woken}

NobodyIsForgotten == \A t \in Waiting : Registered(t)

(* That is not so, but for three reasons only: of a descriptor that tasks  *)
(* share by reference, another task's waker took the place of this one's;  *)
(* the read half of the stream took the registration along; or another     *)
(* thread polled the reactor between clearing and asking again.            *)
WaitersAreRegistered ==
  \A t \in Waiting :
    \/ Registered(t)
    \/ io.kind \in Shared /\ t \in io.ousted
    \/ io.kind = "half" /\ DirOf[t] = "write" /\ "read" \in io.dropped
    \/ io.other /\ t \in io.missed

=============================================================================
