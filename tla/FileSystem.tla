----------------------------- MODULE FileSystem -----------------------------
(***************************************************************************)
(* The shim's asynchronous file system: every operation is done by a       *)
(* thread of its own (spawn_blocking) on copies of its arguments, and its  *)
(* future waits for the thread.  One task works on one file and reads one  *)
(* directory; a future it drops, as a timeout does, leaves its thread to   *)
(* itself.  A write writes its own number.                                 *)
(***************************************************************************)
EXTENDS Naturals, Sequences, SequencesExt, FiniteSetsExt

CONSTANTS
  Entries,     \* of the directory, in order
  MaxOps,      \* bound: operations
  Overtakes    \* a write is begun while a dropped one may still happen

FileAssumption == Entries \in Seq(Nat) /\ MaxOps \in Nat /\ Overtakes \in BOOLEAN

VARIABLE fsys

Ops   == 1 .. MaxOps
Kinds == {"write", "read", "entry"}

FsType ==
  [ kind    : Seq(Kinds),                 \* of the operations so far
    thread  : [Ops -> {"none", "running", "done"}],
    future  : [Ops -> {"none", "waiting", "answered", "dropped", "failed"}],
    file    : 0 .. MaxOps,                \* the last write that happened
    result  : [Ops -> 0 .. MaxOps],       \* what a read found
    written : 0 .. MaxOps,                \* the last write that was answered (history)
    dir     : {"here", "away"},           \* ReadDir::inner
    next    : 1 .. Len(Entries) + 1,      \* where the directory stream is
    seen    : Seq(Nat) ]                  \* entries that were answered (history)

TypeOK == fsys \in FsType

Init ==
  fsys = [ kind |-> << >>, thread |-> [o \in Ops |-> "none"],
           future |-> [o \in Ops |-> "none"], file |-> 0, result |-> [o \in Ops |-> 0],
           written |-> 0, dir |-> "here", next |-> 1, seen |-> << >> ]

Idle == \A o \in Ops : fsys.future[o] # "waiting"
Late == \E o \in Ops : fsys.future[o] = "dropped" /\ fsys.thread[o] = "running"

Started(s, k, th, fu) ==
  LET o == Len(s.kind) + 1
  IN  [s EXCEPT !.kind = Append(@, k), !.thread[o] = th, !.future[o] = fu]

(* read, write and the other functions; File's methods. *)
Call(k) ==
  /\ Idle /\ Len(fsys.kind) < MaxOps /\ k \in {"read", "write"}
  /\ Overtakes \/ ~Late
  /\ fsys' = Started(fsys, k, "running", "waiting")

(* ReadDir::next_entry takes the stream along; without one it is an error. *)
NextEntry ==
  /\ Idle /\ Len(fsys.kind) < MaxOps
  /\ fsys' = IF fsys.dir = "here"
             THEN Started([fsys EXCEPT !.dir = "away"], "entry", "running", "waiting")
             ELSE Started(fsys, "entry", "none", "failed")

(* The thread does it. *)
Work(o) ==
  /\ fsys.thread[o] = "running"
  /\ LET s == [fsys EXCEPT !.thread[o] = "done"] IN
     fsys' = CASE fsys.kind[o] = "write" -> [s EXCEPT !.file = o]
               [] fsys.kind[o] = "read"  -> [s EXCEPT !.result[o] = s.file]
               [] fsys.kind[o] = "entry" ->
                    [s EXCEPT !.next = IF @ <= Len(Entries) THEN @ + 1 ELSE @]

(* The future has its answer when the thread has stored it. *)
AtOnce(o) == TRUE                   \* mutant: the answer does not wait for the thread
Done(o)   == fsys.thread[o] = "done"

Answer(o) ==
  /\ fsys.future[o] = "waiting" /\ Done(o)
  /\ LET s == [fsys EXCEPT !.future[o] = "answered"] IN
     fsys' = CASE fsys.kind[o] = "write" -> [s EXCEPT !.written = o]
               [] fsys.kind[o] = "read"  -> s
               [] fsys.kind[o] = "entry" ->
                    [s EXCEPT !.dir = "here",
                              !.seen = IF Len(@) < s.next - 1 THEN Append(@, Entries[Len(@) + 1])
                                       ELSE @]

(* A future that waits is dropped; with next_entry's goes the stream. *)
Cancel(o) ==
  /\ fsys.future[o] = "waiting"
  /\ fsys' = [fsys EXCEPT !.future[o] = "dropped"]

Next ==
  \/ \E k \in Kinds : Call(k)
  \/ \E o \in Ops : Work(o) \/ Answer(o) \/ Cancel(o)
  \/ NextEntry

Spec == Init /\ [][Next]_fsys

-----------------------------------------------------------------------------
(* A write that was answered has happened, and stands until the next; only *)
(* dropped writes happen after their time.  An answered read found the     *)
(* last answered write or a dropped one.  The entries come in order, and   *)
(* each of them is seen or, with next_entry dropped, lost with the stream. *)
DroppedWrites == {o \in 1 .. Len(fsys.kind) : fsys.kind[o] = "write" /\ fsys.future[o] = "dropped"}

FilesAreOrdered ==
  /\ Idle => fsys.file \in {fsys.written} \cup {o \in DroppedWrites : o > fsys.written}
  /\ \A o \in 1 .. Len(fsys.kind) :
       fsys.kind[o] = "read" /\ fsys.future[o] = "answered" /\ DroppedWrites = {} =>
         fsys.result[o] = Max({0} \cup {w \in 1 .. o - 1 : fsys.kind[w] = "write"})
  /\ IsPrefix(fsys.seen, Entries)
  /\ fsys.dir = "here" => Len(fsys.seen) = fsys.next - 1

=============================================================================
