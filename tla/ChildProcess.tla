---------------------------- MODULE ChildProcess -----------------------------
(***************************************************************************)
(* The shim's Command and Child: a child process, its pipes, and a parent  *)
(* that collects its output, or kills it, or drops its handle.  What the   *)
(* child does is the system's: it may wait for its input to end, it writes *)
(* its two outputs in any order, into pipes of a limited size, and exits.  *)
(* How a parent that waits for a pipe is woken is the module Reactor.      *)
(***************************************************************************)
EXTENDS Naturals

CONSTANTS
  Outputs,     \* what a child may write: records of two numbers
  PipeSize     \* how much a pipe holds

Pipes == {"out", "err"}

ChildProcessAssumption ==
  Outputs \subseteq [Pipes -> Nat] /\ PipeSize \in Nat \ {0}

VARIABLE child

ChildType ==
  [ writes   : Outputs,
    state    : {"none", "running", "exited", "reaped"},   \* exited: a zombie
    readsIn  : BOOLEAN,                \* it goes on when its input has ended
    early    : BOOLEAN,                \* it closes its outputs before it exits
    killed   : BOOLEAN,
    stdin    : BOOLEAN,                \* the parent's end of it is open
    closed   : SUBSET Pipes,           \* the child's ends that are closed
    pipe     : [Pipes -> 0 .. PipeSize],
    wrote    : [Pipes -> Nat],         \* history
    got      : [Pipes -> Nat],         \* stdout_data, stderr_data
    parent   : {"has", "out", "err", "wait", "done", "dropped"},
    killDrop : BOOLEAN ]               \* kill_on_drop

TypeOK == child \in ChildType

Zero == [p \in Pipes |-> 0]

Init ==
  \E writes \in Outputs, reads, early, kill \in BOOLEAN :
    child = [ writes |-> writes, state |-> "none", readsIn |-> reads, early |-> early,
              killed |-> FALSE, stdin |-> TRUE, closed |-> {}, pipe |-> Zero, wrote |-> Zero, got |-> Zero,
              parent |-> "has", killDrop |-> kill ]

-----------------------------------------------------------------------------
(* The child, whose behaviour is not this code's *)

Goes == child.state = "running" /\ ~(child.readsIn /\ child.stdin)

ChildWrites(p) ==
  /\ Goes /\ p \notin child.closed
  /\ child.wrote[p] < child.writes[p] /\ child.pipe[p] < PipeSize
  /\ child' = [child EXCEPT !.wrote[p] = @ + 1, !.pipe[p] = @ + 1]

ChildCloses(p) ==
  /\ Goes /\ child.early /\ p \notin child.closed /\ child.wrote[p] = child.writes[p]
  /\ child' = [child EXCEPT !.closed = @ \cup {p}]

ChildExits ==
  /\ Goes /\ child.wrote = child.writes
  /\ child' = [child EXCEPT !.state = "exited", !.closed = Pipes]

-----------------------------------------------------------------------------
(* The parent *)

Spawn ==
  /\ child.state = "none"
  /\ child' = [child EXCEPT !.state = "running"]

KeepStdin(c) == [c EXCEPT !.parent = "out"]      \* mutant: the child's input never ends

(* wait_with_output lets go of stdin and takes the two others. *)
TakePipes(c) == [c EXCEPT !.stdin = FALSE, !.parent = "out"]

WaitWithOutput ==
  /\ child.parent = "has" /\ child.state # "none"
  /\ child' = TakePipes(child)

ClosedAtOnce(c, p) == p \in c.closed     \* mutant: the end is seen before the rest

(* read_to_end of one, then of the other: until the pipe is empty and the  *)
(* child has no end of it.                                                 *)
AtEof(c, p) == c.pipe[p] = 0 /\ p \in c.closed

ReadPipe(p) ==
  /\ child.parent = p /\ child.pipe[p] > 0
  /\ \E n \in 1 .. child.pipe[p] :
       child' = [child EXCEPT !.pipe[p] = @ - n, !.got[p] = @ + n]

EndOfPipe(p) ==
  /\ child.parent = p /\ AtEof(child, p)
  /\ child' = [child EXCEPT !.parent = IF p = "out" THEN "err" ELSE "wait"]

(* wait: try_wait reaps a child that has exited.  Of one that runs it asks  *)
(* to be told, by a function that the built host does not have.            *)
Wait ==
  /\ child.parent \in {"has", "wait"} /\ child.state = "exited"
  /\ child' = [child EXCEPT !.state = "reaped",
                            !.parent = IF @ = "wait" THEN "done" ELSE @]

Killed(c) ==
  IF c.state = "running"
  THEN [c EXCEPT !.state = "exited", !.killed = TRUE, !.closed = Pipes] ELSE c

(* start_kill, while the handle is there *)
StartKill ==
  /\ child.parent = "has" /\ child.state = "running"
  /\ child' = Killed(child)

(* Child::drop kills, if it was asked to, and does not reap.  The futures  *)
(* of output() and wait_with_output() own the handle.                      *)
Drop ==
  /\ child.parent \notin {"done", "dropped"} /\ child.state # "none"
  /\ child' = [IF child.killDrop THEN Killed(child) ELSE child
               EXCEPT !.parent = "dropped", !.stdin = FALSE, !.pipe = Zero]

Next ==
  \/ \E p \in Pipes : ChildWrites(p) \/ ChildCloses(p) \/ ReadPipe(p) \/ EndOfPipe(p)
  \/ ChildExits \/ Spawn \/ WaitWithOutput \/ Wait \/ StartKill \/ Drop

Spec == Init /\ [][Next]_child

-----------------------------------------------------------------------------
(* When the status is asked for, everything that was written was read; and *)
(* a child with kill_on_drop does not outlive its handle.                  *)
OutputIsComplete ==
  /\ child.parent \in {"wait", "done"} => child.got = child.wrote
  /\ child.parent = "done" => child.state = "reaped" /\ (child.killed \/ child.got = child.writes)
  /\ child.parent = "dropped" /\ child.killDrop => child.state # "running"

(* "Read stdout and stderr concurrently with waiting" (process/mod.rs):    *)
(* the child and a parent that collects its output never wait for each     *)
(* other, the one to write, the other to read.  The parent reads one pipe  *)
(* after the other: this needs children whose stderr fits into its pipe.   *)
OutputGetsOn ==
  child.parent \in Pipes /\ child.state = "running" =>
    \/ child.pipe[child.parent] > 0 \/ AtEof(child, child.parent)
    \/ Goes /\ child.wrote = child.writes
    \/ Goes /\ \E p \in Pipes \ child.closed :
         IF child.wrote[p] = child.writes[p] THEN child.early ELSE child.pipe[p] < PipeSize

=============================================================================
